---- MODULE Spec2Model ----
(***************************************************************************)
(* State-machine model of the ftpd session engine (FtpSession) and of the  *)
(* reactor loop FtpSession::poll that drives every live session.           *)
(*                                                                         *)
(* A socket handle is modelled by whether it is non-null; a data handle    *)
(* also records whether it points at its own socket ("data") or shares the *)
(* command socket ("command", the inline MLST/STAT transfer).  Buffers     *)
(* hold whole replies / whole command lines / byte counts.  Paths are      *)
(* sequences of components; the root directory is the empty sequence.      *)
(***************************************************************************)
EXTENDS Integers, Sequences, FiniteSets, TLC

VARIABLES
    sessions,   \* the session vector handed to FtpSession::poll
    config,     \* FtpConfig: the shared user / password record
    fs,         \* the filesystem below the root directory
    now,        \* std::time (nullptr), in seconds
    reactor     \* position of FtpSession::poll inside the current tick

vars == <<sessions, config, fs, now, reactor>>

----------------------------------------------------------------------------
(* Bounds of the model *)

MaxSessions == 2
MaxNow      == 90
MaxFile     == 2
MaxPending  == 1

(* Program constants *)

IDLE_TIMEOUT        == 60
COMMAND_BUFFERSIZE  == 2   \* in command lines
RESPONSE_BUFFERSIZE == 3
XFER_BUFFERSIZE     == 2
PUMP_ITERATIONS     == 10

SessionIds == 1 .. MaxSessions
ClockSteps == {IDLE_TIMEOUT \div 2}

COMMAND       == "COMMAND"
DATA_CONNECT  == "DATA_CONNECT"
DATA_TRANSFER == "DATA_TRANSFER"
State == {COMMAND, DATA_CONNECT, DATA_TRANSFER}

POLLIN  == "POLLIN"
POLLPRI == "POLLPRI"
POLLOUT == "POLLOUT"
POLLERR == "POLLERR"
POLLHUP == "POLLHUP"

----------------------------------------------------------------------------
(* Filesystem and paths *)

Root == << >>

Front(seq) == SubSeq(seq, 1, Len(seq) - 1)

\* kind of the entry a canonical path names in filesystem f:
\* None, Dir, or File(size) for a regular file
None == <<"none", 0>>
Dir == <<"dir", 0>>
File(size) == <<"file", size>>

fsKind(f, path) ==
    IF path = Root THEN Dir
    ELSE IF Len(path) = 1 /\ path[1] \in DOMAIN f THEN f[path[1]]
    ELSE None

RECURSIVE walk(_, _, _)
\* the kernel's path walk behind ::stat: [ok, path] of the entry reached
walk(f, at, rest) ==
    IF rest = << >> THEN [ok |-> fsKind(f, at) # None, path |-> at]
    ELSE IF fsKind(f, at) # Dir THEN [ok |-> FALSE, path |-> at]
    ELSE IF Head(rest) \in {"", "."} THEN walk(f, at, Tail(rest))
    ELSE IF Head(rest) = ".."
         THEN walk(f, IF at = Root THEN at ELSE Front(at), Tail(rest))
    ELSE walk(f, Append(at, Head(rest)), Tail(rest))

\* ::stat (path): "none" when it fails, else the kind of the entry
statKind(f, path) ==
    LET w == walk(f, Root, path) IN IF w.ok THEN fsKind(f, w.path) ELSE None

isDirKind(k)  == k[1] = "dir"
isFileKind(k) == k[1] = "file"

RECURSIVE coalesce(_)
\* buildPath: the loop that erases a slash that follows a slash; an empty
\* component survives only as the last one (a trailing slash)
coalesce(comps) ==
    IF Len(comps) <= 1 THEN comps
    ELSE IF Head(comps) = "" THEN coalesce(Tail(comps))
    ELSE <<Head(comps)>> \o coalesce(Tail(comps))

\* buildPath: args_ is [abs |-> BOOLEAN, comps |-> components]
buildPath(cwd_, args_) ==
    coalesce(IF args_.abs THEN args_.comps ELSE cwd_ \o args_.comps)

\* dirName: everything before the final slash
dirName(path_) == IF path_ = << >> THEN << >> ELSE Front(path_)

RECURSIVE collapse(_, _)
\* resolvePath: split into non-empty components, drop ".", pop on ".."
collapse(done, rest) ==
    IF rest = << >> THEN done
    ELSE IF Head(rest) \in {"", "."} THEN collapse(done, Tail(rest))
    ELSE IF Head(rest) = ".."
         THEN collapse(IF done = << >> THEN done ELSE Front(done), Tail(rest))
    ELSE collapse(Append(done, Head(rest)), Tail(rest))

\* resolvePath: [ok |-> FALSE] stands for the empty string returned on error
resolvePath(f, path_) ==
    IF statKind(f, dirName(path_)) # Dir
    THEN [ok |-> FALSE, path |-> << >>]
    ELSE [ok |-> TRUE, path |-> collapse(<< >>, path_)]

buildResolvedPath(f, cwd_, args_) == resolvePath(f, buildPath(cwd_, args_))

\* argument strings of the commands: a path argument, or a plain word
Abs(comps) == [abs |-> TRUE, comps |-> comps]
Rel(comps) == [abs |-> FALSE, comps |-> comps]
NoArg == Rel(<< >>)

----------------------------------------------------------------------------
(* Outcomes of the calls into the platform, chosen by the environment for  *)
(* one handler invocation.                                                 *)

DefaultEnv ==
    [ write   |-> "all",      \* Socket::write on the command socket
      socket  |-> "ok",       \* Socket::create / bind / listen
      connect |-> "progress", \* Socket::connect: "done", "progress", "fail"
      accept  |-> TRUE,       \* Socket::accept and setNonBlocking
      open    |-> TRUE,       \* fs::File::open, fs::Dir::open
      seek    |-> TRUE,       \* fs::File::seek
      zinit   |-> TRUE,       \* deflateInit / inflateInit
      data    |-> "ok",       \* read / write on the data socket, after
      ready   |-> 0,          \*   `ready' transfer calls that found it ready
      short   |-> FALSE,      \* reads and writes move one unit, not all
      last    |-> FALSE,      \* the unit read ends the compressed stream
      file    |-> TRUE ]      \* fs::File::read / write, config save

WriteOutcomes == {"all", "block", "err"}

Envs ==
    {[DefaultEnv EXCEPT !.write = w] : w \in WriteOutcomes}
    \cup {[DefaultEnv EXCEPT !.socket = x] : x \in {"create", "bind", "listen"}}
    \cup {[DefaultEnv EXCEPT !.connect = x] : x \in {"done", "fail"}}
    \cup {[DefaultEnv EXCEPT !.accept = FALSE], [DefaultEnv EXCEPT !.open = FALSE],
          [DefaultEnv EXCEPT !.seek = FALSE], [DefaultEnv EXCEPT !.zinit = FALSE],
          [DefaultEnv EXCEPT !.file = FALSE]}
    \cup {[DefaultEnv EXCEPT !.data = x] : x \in {"block", "err", "eof"}}

----------------------------------------------------------------------------
(* A session.  c is the context a handler runs in:                        *)
(*   c.ss the session, c.config the shared FtpConfig, c.fs the filesystem, *)
(*   c.env the platform outcomes of this invocation.                       *)

\* a slot of the session vector that holds no session
NoSession ==
    [ live |-> FALSE,
      m_state |-> COMMAND,
      m_commandSocket |-> FALSE, m_pasvSocket |-> FALSE, m_dataSocket |-> "null",
      m_pendingCloseSocket |-> 0,
      m_commandBuffer |-> << >>, m_responseBuffer |-> << >>,
      m_xferBuffer |-> 0, m_zStreamBuffer |-> 0,
      m_urgent |-> FALSE,
      m_authorizedUser |-> FALSE, m_authorizedPass |-> FALSE,
      m_pasv |-> FALSE, m_port |-> FALSE, m_recv |-> FALSE, m_send |-> FALSE,
      m_deflate |-> FALSE, m_zFlushed |-> FALSE, m_eof |-> FALSE,
      m_zStream |-> FALSE,
      zHeld |-> 0,          \* units inside the z_stream
      zEnd |-> FALSE,       \* the inflate input has reached its end marker
      deflated |-> 0,       \* units at the front of m_xferBuffer that are
                            \* output of the compressor
      bodySent |-> 0,       \* units written to the data socket by the transfer
                            \* under way, or by the one the last step ended
      m_restartPosition |-> 0, m_filePosition |-> 0, m_fileSize |-> 0,
      m_cwd |-> Root, m_rename |-> [empty |-> TRUE, path |-> << >>],
      m_file |-> [open |-> FALSE, path |-> << >>],
      m_fileMode |-> "", m_fileOffset |-> 0,
      m_dir |-> [open |-> FALSE, entries |-> << >>],
      m_glob |-> << >>, m_lwd |-> Root, m_devZero |-> FALSE,
      m_mlstType |-> TRUE,
      m_transfer |-> "none", m_xferDirMode |-> "LIST",
      m_timestamp |-> 0,
      fresh |-> {},         \* sockets created since the poll set was built
      \* what the reactor step that led to this state did to the session:
      log |-> << >>,        \* the RESPONSE entries it logged
      command |-> "",       \* the verb readCommand dispatched ("" if none)
      args |-> "",          \* that command's argument, as a word
      stateBefore |-> COMMAND, \* m_state when the command was dispatched
      openBefore |-> FALSE, \* whether the command socket was open then
      failed |-> FALSE,     \* a reply did not fit, or a write of replies failed
      wouldBlock |-> "",    \* the call that failed with EWOULDBLOCK: "read"
                            \* (readCommand), "flush" (writeResponse), "reply"
                            \* (sendResponse), "data" (a transfer pump)
      wrote |-> << >>,      \* what it wrote to the command socket, in order:
                            \* replies, and "entry" for a unit of listing data
      dataError |-> "",     \* the failure on the data channel it handled:
                            \* "read", "write", "poll" (POLLERR / POLLHUP)
      dropped |-> 0,        \* the buffered lines it discarded at the data mark
      rawSent |-> FALSE,    \* it wrote to the data socket a unit that is not
                            \* output of the compressor
      zInline |-> FALSE,    \* it wrote to the command socket a unit that is
                            \* output of the compressor
      unlocked |-> {},      \* the fields shared with the UI thread that it
                            \* wrote without holding m_lock
      dueBefore |-> -1,     \* lastRest when the command was dispatched
      sinceBefore |-> "",   \* sinceRest when the command was dispatched
      \* history of the login commands:
      userMatched |-> FALSE, \* the last USER named the configured user
      passMatched |-> FALSE, \* the last PASS gave the configured password
      loginSeen |-> FALSE,   \* a PASS matched while userMatched held
      needPass |-> FALSE,    \* the last USER was answered 331, and no PASS
                             \* since then has been accepted
      \* the command dispatched last was an ABOR that aborted a transfer
      afterAbort |-> FALSE,
      \* history of the restart offset:
      lastRest |-> -1,      \* the offset of the REST accepted with 350 that no
                            \* REST, RETR, STOR or APPE has followed; else -1
      sinceRest |-> "",     \* the commands since that REST: "" for none, "kept"
                            \* when none went through setState, else "reset"
      xferDone |-> FALSE,   \* a RETR, STOR or APPE was handled, and no REST since
      \* the command line dispatched last was an RNFR answered with 350
      afterRnfr |-> FALSE
    ]

\* the step record of a read or write that failed with EWOULDBLOCK
blocked(c, call) == [c EXCEPT !.ss.wouldBlock = call]

\* the step record of a failure on the data channel, and of whether the
\* command socket was open when it was handled
dataFault(c, kind) ==
    [c EXCEPT !.ss.dataError = kind, !.ss.openBefore = c.ss.m_commandSocket]

\* SharedSocket::unique for the two shared handles
commandUnique(ss) == ss.m_commandSocket /\ ss.m_dataSocket # "command"
dataUnique(ss) ==
    \/ ss.m_dataSocket = "data"
    \/ ss.m_dataSocket = "command" /\ ~ss.m_commandSocket

closeCommand(c) ==
    IF commandUnique(c.ss)
    THEN [c EXCEPT !.ss.m_commandSocket = FALSE,
                   !.ss.m_pendingCloseSocket = @ + 1]
    ELSE [c EXCEPT !.ss.m_commandSocket = FALSE]

closePasv(c) == [c EXCEPT !.ss.m_pasvSocket = FALSE]

\* closeData that shuts the socket down whoever else holds it
closeData_Shutdown(c) ==
    [c EXCEPT !.ss.m_dataSocket = "null",
              !.ss.m_pendingCloseSocket = @ + 1,
              !.ss.m_recv = FALSE, !.ss.m_send = FALSE]

closeData(c) ==
    LET d == IF dataUnique(c.ss)
             THEN [c EXCEPT !.ss.m_dataSocket = "null",
                            !.ss.m_pendingCloseSocket = @ + 1]
             ELSE [c EXCEPT !.ss.m_dataSocket = "null"]
    IN [d EXCEPT !.ss.m_recv = FALSE, !.ss.m_send = FALSE]

authorized(ss) == ss.m_authorizedUser /\ ss.m_authorizedPass

setState(c, state_, closePasv_, closeData_) ==
    LET c1 == [c EXCEPT !.ss.m_state = state_, !.ss.m_timestamp = now]
        c2 == IF closePasv_ THEN closePasv(c1) ELSE c1
        c3 == IF closeData_ THEN closeData(c2) ELSE c2
    IN IF state_ = COMMAND
       THEN [c3 EXCEPT !.ss.m_restartPosition = 0,
                       !.ss.m_fileSize = 0,
                       !.ss.m_filePosition = 0,
                       !.ss.m_devZero = FALSE,
                       !.ss.m_file = [open |-> FALSE, path |-> << >>],
                       !.ss.m_fileMode = "",
                       !.ss.m_fileOffset = 0,
                       !.ss.m_dir = [open |-> FALSE, entries |-> << >>],
                       !.ss.m_zStream = FALSE,
                       !.ss.zHeld = 0,
                       !.ss.zEnd = FALSE]
       ELSE c3

\* sendResponse (char const *fmt_, ...): log, format into the free area,
\* then try to write the buffer at once
sendResponse(c, text) ==
    IF ~c.ss.m_commandSocket THEN c
    ELSE LET logged == [c EXCEPT !.ss.log = Append(@, text)] IN
         IF Len(c.ss.m_responseBuffer) + 1 > RESPONSE_BUFFERSIZE
         THEN closeCommand([logged EXCEPT !.ss.failed = TRUE])
         ELSE LET queued == [logged EXCEPT !.ss.m_responseBuffer = Append(@, text)] IN
              CASE c.env.write = "err"   -> closeCommand([queued EXCEPT !.ss.failed = TRUE])
                [] c.env.write = "block" -> blocked(queued, "reply")
                [] OTHER -> [queued EXCEPT !.ss.m_responseBuffer = << >>,
                                           !.ss.wrote = @ \o queued.ss.m_responseBuffer,
                                           !.ss.m_timestamp = now]

\* sendResponse (std::string_view): log and copy into the free area only
sendResponseView(c, text) ==
    IF ~c.ss.m_commandSocket THEN c
    ELSE LET logged == [c EXCEPT !.ss.log = Append(@, text)] IN
         IF Len(c.ss.m_responseBuffer) + 1 > RESPONSE_BUFFERSIZE
         THEN closeCommand([logged EXCEPT !.ss.failed = TRUE])
         ELSE [logged EXCEPT !.ss.m_responseBuffer = Append(@, text)]

\* writeResponse: the reactor's flush on POLLOUT
writeResponse(c) ==
    IF c.env.write = "block"
    THEN closeCommand(blocked([c EXCEPT !.ss.failed = TRUE], "flush"))
    ELSE IF c.env.write = "err"
    THEN closeCommand([c EXCEPT !.ss.failed = TRUE])
    ELSE [c EXCEPT !.ss.m_responseBuffer = << >>,
                   !.ss.wrote = @ \o c.ss.m_responseBuffer,
                   !.ss.m_timestamp = now]

----------------------------------------------------------------------------
(* Command arguments.  An argument is [text, abs, comps]: text is the      *)
(* argument as a word ("" when absent, "path" for a path argument), and    *)
(* abs/comps is the same argument read as a path.  For SITE, text is the   *)
(* subcommand and comps holds the rest of the line.                        *)

P(abs, comps) == [text |-> "path", abs |-> abs, comps |-> comps]
W(text)       == [text |-> text, abs |-> FALSE,
                  comps |-> IF text = "" THEN << >> ELSE <<text>>]
W2(text, val) == [text |-> text, abs |-> FALSE, comps |-> <<val>>]

\* the value of a string of decimal digits, -1 for a string that has
\* another character; the empty string has the value 0
decimal(text) ==
    CASE text \in {"", "0"} -> 0
      [] text = "1" -> 1
      [] text = "2" -> 2
      [] text = "9" -> 9
      [] OTHER -> -1

pathOf(args_) == [abs |-> args_.abs, comps |-> args_.comps]
hasArgs(args_) == args_.text # ""

\* the name of a top-level entry the filesystem can hold, or "" for any other path
leaf(f, path) == IF Len(path) = 1 /\ path[1] \in DOMAIN f THEN path[1] ELSE ""

----------------------------------------------------------------------------
(* Data connection set-up *)

\* changeDir that takes the path as built, without resolving it
changeDir_NoResolve(c, args_) ==
    LET path == buildPath(c.ss.m_cwd, pathOf(args_)) IN
    IF statKind(c.fs, path) # Dir THEN [c |-> c, ok |-> FALSE]
    ELSE [c |-> [c EXCEPT !.ss.m_cwd = path], ok |-> TRUE]

changeDir(c, args_) ==
    IF args_.text = ".."
    THEN [c |-> [c EXCEPT !.ss.m_cwd = IF Len(@) <= 1 THEN Root ELSE Front(@)],
          ok |-> TRUE]
    ELSE LET r == buildResolvedPath(c.fs, c.ss.m_cwd, pathOf(args_)) IN
         IF ~r.ok THEN [c |-> c, ok |-> FALSE]
         ELSE IF fsKind(c.fs, r.path) # Dir THEN [c |-> c, ok |-> FALSE]
         ELSE [c |-> [c EXCEPT !.ss.m_cwd = r.path], ok |-> TRUE]

dataAccept(c) ==
    IF ~c.ss.m_pasv
    THEN setState(sendResponse(c, "503 Bad sequence of commands"), COMMAND, TRUE, TRUE)
    ELSE LET c1 == [c EXCEPT !.ss.m_pasv = FALSE] IN
         IF ~c.env.accept
         THEN setState(sendResponse(c1, "425 Failed to establish connection"),
                       COMMAND, TRUE, TRUE)
         ELSE LET c2 == [c1 EXCEPT !.ss.m_dataSocket = "data",
                                   !.ss.fresh = @ \cup {"data"}]
              IN setState(sendResponse(c2, "150 Ready"), DATA_TRANSFER, TRUE, FALSE)

\* returns [c, ok]: ok is the bool dataConnect returns
dataConnect(c) ==
    LET c1 == [c EXCEPT !.ss.m_port = FALSE] IN
    IF c.env.socket = "create"
    THEN [c |-> [c1 EXCEPT !.ss.m_dataSocket = "null"], ok |-> FALSE]
    ELSE LET c2 == [c1 EXCEPT !.ss.m_dataSocket = "data",
                              !.ss.fresh = @ \cup {"data"}] IN
         CASE c.env.connect = "fail"     -> [c |-> c2, ok |-> FALSE]
           [] c.env.connect = "progress" -> [c |-> c2, ok |-> TRUE]
           [] OTHER ->
                [c |-> setState(sendResponse(c2, "150 Ready"), DATA_TRANSFER, TRUE, FALSE),
                 ok |-> TRUE]

\* the entries a freshly opened directory will return from readdir
dirEntries(f, path) ==
    LET names == IF path = Root
                 THEN {n \in DOMAIN f : f[n] # None}
                 ELSE {}
        RECURSIVE list(_)
        list(S) == IF S = {} THEN << >>
                   ELSE LET n == CHOOSE x \in S : TRUE IN <<n>> \o list(S \ {n})
    IN <<".", "..">> \o list(names)

\* the buffer fillDirent and the pumps produce into
ioBufferIsZ(ss) == ss.m_deflate

\* the name whose formatted entry is longer than the io-buffer; every other
\* entry takes one unit
LongName == "n"
direntSize(name) == IF name = LongName THEN XFER_BUFFERSIZE + 1 ELSE 1

\* ioBuffer.freeSize ()
freeSize(ss) ==
    XFER_BUFFERSIZE - (IF ioBufferIsZ(ss) THEN ss.m_zStreamBuffer ELSE ss.m_xferBuffer)

\* ioBuffer.markUsed and m_filePosition += for n units
markUsed(c, n) ==
    IF ioBufferIsZ(c.ss)
    THEN [c EXCEPT !.ss.m_zStreamBuffer = @ + n, !.ss.m_filePosition = @ + n]
    ELSE [c EXCEPT !.ss.m_xferBuffer = @ + n, !.ss.m_filePosition = @ + n]

EAGAIN == 11

\* fillDirent for the entry called name: the formatted entry, or EAGAIN
\* when the io-buffer lacks room
fillDirent(c, name) ==
    IF direntSize(name) > freeSize(c.ss)
    THEN [c |-> c, rc |-> EAGAIN]
    ELSE [c |-> markUsed(c, direntSize(name)), rc |-> 0]

----------------------------------------------------------------------------
(* Transfer set-up: xferFile and xferDir *)

\* fs::File::open for reading: any existing entry opens
openRead(c, path) == c.env.open /\ fsKind(c.fs, path) # None

\* fs::File::open in a write mode: "wb" and "ab" create, "r+b" needs the file
openWrite(c, path, mode) ==
    /\ c.env.open
    /\ leaf(c.fs, path) # ""
    /\ fsKind(c.fs, path) # Dir
    /\ mode = "r+b" => fsKind(c.fs, path) # None

\* the filesystem after a successful open in a write mode
fsAfterOpen(f, path, mode) ==
    IF mode = "wb" \/ fsKind(f, path) = None
    THEN [f EXCEPT ![leaf(f, path)] = File(0)]
    ELSE f

\* the PORT connect of a transfer: 425 when dataConnect fails
connectOr425(d) ==
    IF ~d.ok
    THEN setState(sendResponse(d.c, "425 Can't open data connection"), COMMAND, TRUE, TRUE)
    ELSE d.c

\* armData that does not ask for a pending PASV or PORT
armData_Unasked(c) ==
    IF c.ss.m_port
    THEN connectOr425(dataConnect(setState(c, DATA_CONNECT, FALSE, TRUE)))
    ELSE setState(c, DATA_CONNECT, FALSE, TRUE)

\* the tail of xferFile and of the NLST glob branch: needs a pending
\* PASV or PORT, enters DATA_CONNECT and starts the PORT connect; the
\* session is back in COMMAND when that has failed
armData(c) ==
    IF ~c.ss.m_port /\ ~c.ss.m_pasv
    THEN setState(sendResponse(c, "503 Bad sequence of commands"), COMMAND, TRUE, TRUE)
    ELSE IF c.ss.m_port
    THEN connectOr425(dataConnect(setState(c, DATA_CONNECT, FALSE, TRUE)))
    ELSE setState(c, DATA_CONNECT, FALSE, TRUE)

\* the listing that leaves m_send as closeData has cleared it
sendOnceArmed_Forgets(a) == a

\* m_send = true, reached only when the data connection has been armed
sendOnceArmed(a) ==
    IF a.ss.m_state = COMMAND THEN a ELSE [a EXCEPT !.ss.m_send = TRUE]

\* "set up the transfer" of xferFile, reached only when armed
setUpTransfer(a, mode_) ==
    IF a.ss.m_state = COMMAND THEN a
    ELSE IF mode_ = "RETR"
    THEN [a EXCEPT !.ss.m_recv = FALSE, !.ss.m_send = TRUE,
                   !.ss.m_transfer = "retrieveTransfer"]
    ELSE [a EXCEPT !.ss.m_recv = TRUE, !.ss.m_send = FALSE,
                   !.ss.m_transfer = "storeTransfer"]

xferFileStart(c, path, mode_) == setUpTransfer(armData(c), mode_)

\* xferFile once the argument is resolved to r
xferFilePath(c, r, mode_) ==
    LET c0 == [c EXCEPT !.ss.m_zFlushed = FALSE, !.ss.m_eof = FALSE,
                        !.ss.m_xferBuffer = 0, !.ss.m_zStreamBuffer = 0,
                        !.ss.deflated = 0]
        c1 == IF c.ss.m_deflate
              THEN [c0 EXCEPT !.ss.m_zStream = TRUE, !.ss.zHeld = 0, !.ss.zEnd = FALSE]
              ELSE c0
        rest == c.ss.m_restartPosition
        devZero == r.path = <<"devZero">>
        k == fsKind(c.fs, r.path)
        append == mode_ = "APPE"
        mode == IF append THEN "ab" ELSE IF rest # 0 THEN "r+b" ELSE "wb"
        \* the file open for reading
        c2r == [c1 EXCEPT !.ss.m_file = [open |-> TRUE, path |-> r.path],
                          !.ss.m_fileMode = "rb",
                          !.ss.m_fileOffset = 0,
                          !.ss.m_fileSize = IF isFileKind(k) THEN k[2] ELSE 0]
        \* the file open for writing
        c2w == [c1 EXCEPT !.fs = fsAfterOpen(@, r.path, mode),
                          !.ss.m_file = [open |-> TRUE, path |-> r.path],
                          !.ss.m_fileMode = mode,
                          !.ss.m_fileOffset = 0]
    IN
    IF c.ss.m_deflate /\ ~c.env.zinit
    THEN setState(sendResponse(c1, "550 zlib error"), COMMAND, TRUE, TRUE)
    ELSE IF ~r.ok
    THEN setState(sendResponse(c1, "553 %s"), COMMAND, TRUE, TRUE)
    ELSE IF ~devZero /\ mode_ = "RETR" /\ ~openRead(c, r.path)
    THEN sendResponse(c1, "450 %s")
    ELSE IF ~devZero /\ mode_ = "RETR" /\ rest # 0 /\ ~c.env.seek
    THEN sendResponse(c2r, "450 %s")
    ELSE IF ~devZero /\ mode_ # "RETR" /\ ~openWrite(c, r.path, mode)
    THEN sendResponse(c1, "450 %s")
    ELSE IF ~devZero /\ mode_ # "RETR" /\ rest # 0 /\ ~append /\ ~c.env.seek
    THEN sendResponse(c2w, "450 %s")
    ELSE xferFileStart(
             IF devZero THEN [c1 EXCEPT !.ss.m_devZero = TRUE]
             ELSE IF mode_ = "RETR"
             THEN [c2r EXCEPT !.ss.m_fileOffset = rest, !.ss.m_filePosition = rest]
             ELSE [c2w EXCEPT !.ss.m_fileOffset = IF append THEN 0 ELSE rest,
                              !.ss.m_filePosition = rest],
             r.path, mode_)

xferFile(c, args_, mode_) ==
    xferFilePath(c, buildResolvedPath(c.fs, c.ss.m_cwd, pathOf(args_)), mode_)

\* the inline MLST / STAT transfer: the data socket is the command socket
inlineTransfer(c1) ==
    [c1 EXCEPT !.ss.m_dataSocket = IF c1.ss.m_commandSocket THEN "command" ELSE "null",
               !.ss.m_send = TRUE]

\* the inline MLST / STAT transfer and the data-connection listings
xferDirStart(c, mode_) ==
    IF mode_ \in {"MLST", "STAT"}
    THEN inlineTransfer(setState(sendResponse(c, "250-Status"), DATA_TRANSFER, TRUE, TRUE))
    ELSE sendOnceArmed(armData(c))

fail550(c) == setState(sendResponse(c, "550 %s"), COMMAND, TRUE, TRUE)

\* xferDir once the argument is resolved to r
xferDirPath(c, args_, mode_, r) ==
    LET c0 == [c EXCEPT !.ss.m_xferDirMode = mode_,
                        !.ss.m_recv = FALSE, !.ss.m_send = TRUE,
                        !.ss.m_zFlushed = FALSE, !.ss.m_eof = FALSE,
                        !.ss.m_filePosition = 0,
                        !.ss.unlocked = @ \cup {"m_filePosition"},
                        !.ss.m_xferBuffer = 0, !.ss.m_zStreamBuffer = 0,
                        !.ss.deflated = 0]
        c1 == IF c.ss.m_deflate
              THEN [c0 EXCEPT !.ss.m_zStream = TRUE, !.ss.zHeld = 0, !.ss.zEnd = FALSE]
              ELSE c0
        c2 == [c1 EXCEPT !.ss.m_transfer = "listTransfer"]
        target == IF hasArgs(args_) THEN r.path ELSE c.ss.m_cwd
        kind == IF hasArgs(args_) /\ ~r.ok THEN None ELSE fsKind(c.fs, target)
        \* the listing of a directory; a single entry otherwise
        asDir == mode_ # "MLST" /\ (kind = Dir \/ ~hasArgs(args_))
        c3 == [c2 EXCEPT !.ss.m_dir = [open |-> TRUE,
                                       entries |-> dirEntries(c.fs, target)],
                         !.ss.m_lwd = target]
        cx == IF asDir THEN c3 ELSE c2
        \* fillDirent on the path itself
        entry == ~asDir \/ (mode_ = "MLSD" /\ c.ss.m_mlstType)
    IN
    IF c.ss.m_deflate /\ ~c.env.zinit
    THEN setState(sendResponse(c1, "550 zlib error"), COMMAND, TRUE, TRUE)
    ELSE IF kind = None
    THEN fail550(c2)
    ELSE IF asDir /\ (~c.env.open \/ kind # Dir)
    THEN fail550(c2)
    ELSE IF ~asDir /\ mode_ = "MLSD"
    THEN setState(sendResponse(c2, "501 %s"), COMMAND, TRUE, TRUE)
    ELSE IF entry /\ fillDirent(cx, leaf(c.fs, target)).rc # 0
    THEN fail550(fillDirent(cx, leaf(c.fs, target)).c)
    ELSE xferDirStart(IF entry THEN fillDirent(cx, leaf(c.fs, target)).c ELSE cx, mode_)

\* xferDir without the LIST -a / -l retry
xferDirPlain(c, args_, mode_) ==
    xferDirPath(c, args_, mode_, buildResolvedPath(c.fs, c.ss.m_cwd, pathOf(args_)))

xferDir(c, args_, mode_, workaround_) ==
    LET needWorkaround == workaround_ /\ args_.text \in {"-a", "-l"}
        r == buildResolvedPath(c.fs, c.ss.m_cwd, pathOf(args_))
    IN xferDirPlain(c,
                    IF needWorkaround /\ (~r.ok \/ fsKind(c.fs, r.path) = None)
                       /\ ~(c.ss.m_deflate /\ ~c.env.zinit)
                    THEN W("") ELSE args_,
                    mode_)

----------------------------------------------------------------------------
(* Command handlers, in the order of the source *)

\* ABOR that forgets to close the data socket
ABOR_LeavesData(c, args_) ==
    IF c.ss.m_state = COMMAND
    THEN sendResponse(c, "225 No transfer to abort")
    ELSE setState(sendResponse(sendResponse(c, "225 Aborted"), "425 Transfer aborted"),
                  COMMAND, TRUE, FALSE)

ABOR(c, args_) ==
    IF c.ss.m_state = COMMAND
    THEN sendResponse(c, "225 No transfer to abort")
    ELSE setState(sendResponse(sendResponse(c, "225 Aborted"), "425 Transfer aborted"),
                  COMMAND, TRUE, TRUE)

ALLO(c, args_) ==
    setState(sendResponse(c, "202 Superfluous command"), COMMAND, FALSE, FALSE)

\* the reply of the transfer starters to a session that is not logged in
notLoggedIn(c) ==
    sendResponse(setState(c, COMMAND, FALSE, FALSE), "530 Not logged in")

APPE(c, args_) ==
    IF ~authorized(c.ss) THEN notLoggedIn(c) ELSE xferFile(c, args_, "APPE")

CDUP(c, args_) ==
    LET c1 == setState(c, COMMAND, FALSE, FALSE) IN
    IF ~authorized(c1.ss) THEN sendResponse(c1, "530 Not logged in")
    ELSE LET d == changeDir(c1, W("..")) IN
         IF ~d.ok THEN sendResponse(d.c, "550 %s") ELSE sendResponse(d.c, "200 OK")

CWD(c, args_) ==
    LET c1 == setState(c, COMMAND, FALSE, FALSE) IN
    IF ~authorized(c1.ss) THEN sendResponse(c1, "530 Not logged in")
    ELSE LET d == changeDir(c1, args_) IN
         IF ~d.ok THEN sendResponse(d.c, "550 %s") ELSE sendResponse(d.c, "200 OK")

DELE(c, args_) ==
    LET c1 == setState(c, COMMAND, FALSE, FALSE)
        r  == buildResolvedPath(c.fs, c.ss.m_cwd, pathOf(args_))
    IN
    IF ~authorized(c1.ss) THEN sendResponse(c1, "530 Not logged in")
    ELSE IF ~r.ok THEN sendResponse(c1, "553 %s")
    ELSE IF ~isFileKind(fsKind(c.fs, r.path)) THEN sendResponse(c1, "550 %s")
    ELSE sendResponse([c1 EXCEPT !.fs[leaf(c.fs, r.path)] = None], "250 OK")

FEAT(c, args_) ==
    sendResponse(setState(c, COMMAND, FALSE, FALSE), "211-Features 211 End")

HELP(c, args_) ==
    sendResponse(setState(c, COMMAND, FALSE, FALSE), "214-Commands 214 End")

LIST(c, args_) ==
    IF ~authorized(c.ss) THEN notLoggedIn(c) ELSE xferDir(c, args_, "LIST", TRUE)

MDTM(c, args_) ==
    LET c1 == setState(c, COMMAND, FALSE, FALSE) IN
    IF ~authorized(c1.ss) THEN sendResponse(c1, "530 Not logged in")
    ELSE sendResponse(c1, "502 Command not implemented")

MKD(c, args_) ==
    LET c1 == setState(c, COMMAND, FALSE, FALSE)
        r  == buildResolvedPath(c.fs, c.ss.m_cwd, pathOf(args_))
    IN
    IF ~authorized(c1.ss) THEN sendResponse(c1, "530 Not logged in")
    ELSE IF ~r.ok THEN sendResponse(c1, "553 %s")
    ELSE IF fsKind(c.fs, r.path) # None \/ leaf(c.fs, r.path) = ""
    THEN sendResponse(c1, "550 %s")
    ELSE sendResponse([c1 EXCEPT !.fs[leaf(c.fs, r.path)] = Dir], "250 OK")

MLSD(c, args_) ==
    IF ~authorized(c.ss) THEN notLoggedIn(c) ELSE xferDir(c, args_, "MLSD", FALSE)

MLST(c, args_) ==
    IF ~authorized(c.ss) THEN notLoggedIn(c) ELSE xferDir(c, args_, "MLST", FALSE)

MODE(c, args_) ==
    LET c1 == setState(c, COMMAND, FALSE, FALSE) IN
    IF args_.text = "S" THEN sendResponse([c1 EXCEPT !.ss.m_deflate = FALSE], "200 OK")
    ELSE IF args_.text = "Z" THEN sendResponse([c1 EXCEPT !.ss.m_deflate = TRUE], "200 OK")
    ELSE sendResponse(c1, "504 Unavailable")

\* the names a pattern with "*" matches in the working directory
globEntries(f, cwd_) ==
    LET d == dirEntries(f, cwd_) IN SubSeq(d, 3, Len(d))

NLST(c, args_) ==
    IF ~authorized(c.ss) THEN notLoggedIn(c)
    ELSE IF args_.text = "*"
    THEN IF fsKind(c.fs, c.ss.m_cwd) # Dir \/ ~c.env.open
         THEN setState(sendResponse(c, "501 %s"), COMMAND, FALSE, FALSE)
         ELSE sendOnceArmed(armData(
                  [c EXCEPT !.ss.m_glob = globEntries(c.fs, c.ss.m_cwd),
                            !.ss.m_transfer = "globTransfer"]))
    ELSE xferDir(c, args_, "NLST", FALSE)

NOOP(c, args_) == sendResponse(c, "200 OK")

OPTS(c, args_) ==
    LET c1 == setState(c, COMMAND, FALSE, FALSE) IN
    CASE args_.text \in {"UTF8", "UTF8 ON", "UTF8 NLST"} -> sendResponse(c1, "200 OK")
      [] args_.text = "MLST" ->
            sendResponse([c1 EXCEPT !.ss.m_mlstType = "Type;" \in
                                        {args_.comps[i] : i \in DOMAIN args_.comps}],
                         "200 MLST OPTS")
      [] args_.text = "MODE Z LEVEL" ->
            IF args_.comps[1] # "" /\ decimal(args_.comps[1]) \in 0 .. 9
            THEN sendResponse([c1 EXCEPT !.config.deflateLevel = decimal(args_.comps[1])],
                              "200 MODE Z LEVEL set")
            ELSE sendResponse(c1, "501 %s")
      [] OTHER -> sendResponse(c1, "504 %s")

\* PASS that does not ask for an accepted USER first
PASS_WithoutUser(c, args_) ==
    LET c1 == [setState(c, COMMAND, FALSE, FALSE) EXCEPT !.ss.m_authorizedPass = FALSE]
        pass == c.config.pass
    IN
    IF pass = "" \/ pass = args_.text
    THEN sendResponse([c1 EXCEPT !.ss.m_authorizedPass = TRUE], "230 OK")
    ELSE sendResponse(c1, "430 Invalid password")

PASS(c, args_) ==
    LET c1 == [setState(c, COMMAND, FALSE, FALSE) EXCEPT !.ss.m_authorizedPass = FALSE]
        user == c.config.user
        pass == c.config.pass
    IN
    IF user # "" /\ ~c1.ss.m_authorizedUser
    THEN sendResponse(c1, "430 User not authorized")
    ELSE IF pass = "" \/ pass = args_.text
    THEN sendResponse([c1 EXCEPT !.ss.m_authorizedPass = TRUE], "230 OK")
    ELSE sendResponse(c1, "430 Invalid password")

\* PASV that starts to listen without the login check
PASV_WithoutLogin(c, args_) ==
    LET c1 == [setState(c, COMMAND, TRUE, TRUE)
                   EXCEPT !.ss.m_pasv = FALSE, !.ss.m_port = FALSE] IN
    IF c.env.socket # "ok"
    THEN sendResponse(c1, "451 Failed to create listening socket")
    ELSE sendResponse([c1 EXCEPT !.ss.m_pasvSocket = TRUE,
                                 !.ss.fresh = @ \cup {"pasv"},
                                 !.ss.m_pasv = TRUE],
                      "227 Entering Passive Mode")

PASV(c, args_) ==
    IF ~authorized(c.ss) THEN notLoggedIn(c)
    ELSE LET c1 == [setState(c, COMMAND, TRUE, TRUE)
                        EXCEPT !.ss.m_pasv = FALSE, !.ss.m_port = FALSE] IN
         IF c.env.socket = "create"
         THEN sendResponse(c1, "451 Failed to create listening socket")
         ELSE LET c2 == [c1 EXCEPT !.ss.m_pasvSocket = TRUE,
                                   !.ss.fresh = @ \cup {"pasv"}] IN
              IF c.env.socket = "bind"
              THEN sendResponse(closePasv(c2), "451 Failed to bind address")
              ELSE IF c.env.socket = "listen"
              THEN sendResponse(closePasv(c2), "451 Failed to listen on socket")
              ELSE sendResponse([c2 EXCEPT !.ss.m_pasv = TRUE],
                                "227 Entering Passive Mode")

\* The argument of PORT.  A(chars) is an argument given character by
\* character; the word "h1,h2,h3,h4,p1,p2" stands for a well-formed one.
A(chars) == [text |-> "port", abs |-> FALSE, comps |-> chars]

\* std::isdigit and the value *p - '0'
isdigit(ch) == ch \in {"0", "1", "2", "3", "4", "5", "6", "7", "8", "9"}
digitValue(ch) ==
    CASE ch = "0" -> 0 [] ch = "1" -> 1 [] ch = "2" -> 2 [] ch = "3" -> 3
      [] ch = "4" -> 4 [] ch = "5" -> 5 [] ch = "6" -> 6 [] ch = "7" -> 7
      [] ch = "8" -> 8 [] ch = "9" -> 9

\* the number of commas in the first n characters
commasUpTo(chars, n) == Cardinality({i \in 1 .. n : chars[i] = ","})

\* the position of the fourth comma, where the string is cut in two
cutAt(chars) ==
    CHOOSE i \in DOMAIN chars : chars[i] = "," /\ commasUpTo(chars, i) = 4

\* the other commas become dots
dotted(chars) == [i \in DOMAIN chars |-> IF chars[i] = "," THEN "." ELSE chars[i]]
addrString(chars) == dotted(SubSeq(chars, 1, cutAt(chars) - 1))
portString(chars) == dotted(SubSeq(chars, cutAt(chars) + 1, Len(chars)))

\* the fields of a dotted string
RECURSIVE fields(_)
fields(str) ==
    IF \A i \in DOMAIN str : str[i] # "." THEN <<str>>
    ELSE LET d == CHOOSE i \in DOMAIN str :
                      str[i] = "." /\ \A j \in 1 .. i - 1 : str[j] # "."
         IN <<SubSeq(str, 1, d - 1)>> \o fields(SubSeq(str, d + 1, Len(str)))

\* a field of one to three digits without a leading zero, at most 255
octet(f) ==
    /\ Len(f) \in 1 .. 3
    /\ \A i \in DOMAIN f : isdigit(f[i])
    /\ Len(f) > 1 => f[1] # "0"
    /\ Len(f) = 3 => digitValue(f[1]) * 100 + digitValue(f[2]) * 10 + digitValue(f[3]) <= 255

\* inet_aton, for the dotted quads of decimal numbers
inet_aton(str) ==
    LET fs_ == fields(str) IN Len(fs_) = 4 /\ \A i \in DOMAIN fs_ : octet(fs_[i])

\* int val as two halves of 16 bits, val = hi * 2^16 + lo in two's complement
Half == 65536
\* val *= 10; val += *p - '0', wrapping around; over tells that the
\* mathematical result does not fit a signed int
timesTenPlus(val, d) ==
    LET t  == val.lo * 10 + d
        h  == val.hi * 10 + t \div Half
    IN [hi |-> h % Half, lo |-> t % Half,
        over |-> val.over \/ val.hi >= Half \div 2 \/ h >= Half \div 2]
\* val > 0xFF in signed arithmetic
above255(val) == val.hi < Half \div 2 /\ (val.hi > 0 \/ val.lo > 255)

\* the loop over portString: [ok, val, port], port an unsigned 16-bit value
RECURSIVE parsePort(_, _, _, _)
parsePort(str, i, val, port) ==
    IF i > Len(str) THEN [ok |-> TRUE, val |-> val, port |-> port]
    ELSE IF ~isdigit(str[i])
    THEN IF i = 1 \/ str[i] # "." \/ above255(val)
         THEN [ok |-> FALSE, val |-> val, port |-> port]
         ELSE parsePort(str, i + 1, [hi |-> 0, lo |-> 0, over |-> val.over],
                        (((port * 256) % Half) + val.lo) % Half)
    ELSE parsePort(str, i + 1, timesTenPlus(val, digitValue(str[i])), port)

\* the checks of PORT on its argument: [ok, over], over telling that the
\* signed val has overflowed on the way
portArgument(args_) ==
    IF args_.text # "port"
    THEN [ok |-> args_.text = "h1,h2,h3,h4,p1,p2", over |-> FALSE]
    ELSE LET chars == args_.comps IN
         IF commasUpTo(chars, Len(chars)) # 5 \/ ~inet_aton(addrString(chars))
         THEN [ok |-> FALSE, over |-> FALSE]
         ELSE LET r == parsePort(portString(chars), 1,
                                 [hi |-> 0, lo |-> 0, over |-> FALSE], 0)
              IN [ok |-> r.ok /\ ~above255(r.val) /\ r.port <= 255, over |-> r.val.over]

PORT(c, args_) ==
    IF ~authorized(c.ss) THEN notLoggedIn(c)
    ELSE LET c1 == [setState(c, COMMAND, TRUE, TRUE)
                        EXCEPT !.ss.m_pasv = FALSE, !.ss.m_port = FALSE] IN
         IF ~portArgument(args_).ok
         THEN sendResponse(c1, "501 %s")
         ELSE sendResponse([c1 EXCEPT !.ss.m_port = TRUE], "200 OK")

PWD(c, args_) ==
    IF ~authorized(c.ss) THEN sendResponse(c, "530 Not logged in")
    ELSE sendResponseView(c, "257 cwd")

QUIT(c, args_) == closeCommand(sendResponse(c, "221 Disconnecting"))

\* REST that answers 350 without storing the offset
REST_Forgets(c, args_) ==
    LET c1 == setState(c, COMMAND, FALSE, FALSE) IN
    IF ~authorized(c1.ss) THEN sendResponse(c1, "530 Not logged in")
    ELSE IF decimal(args_.text) < 0 THEN sendResponse(c1, "504 %s")
    ELSE sendResponse(c1, "350 OK")

REST(c, args_) ==
    LET c1 == setState(c, COMMAND, FALSE, FALSE) IN
    IF ~authorized(c1.ss) THEN sendResponse(c1, "530 Not logged in")
    ELSE IF decimal(args_.text) < 0 THEN sendResponse(c1, "504 %s")
    ELSE sendResponse([c1 EXCEPT !.ss.m_restartPosition = decimal(args_.text)], "350 OK")

RETR(c, args_) ==
    IF ~authorized(c.ss) THEN notLoggedIn(c) ELSE xferFile(c, args_, "RETR")

RMD(c, args_) ==
    LET c1 == setState(c, COMMAND, FALSE, FALSE)
        r  == buildResolvedPath(c.fs, c.ss.m_cwd, pathOf(args_))
    IN
    IF ~authorized(c1.ss) THEN sendResponse(c1, "530 Not logged in")
    ELSE IF ~r.ok THEN sendResponse(c1, "553 %s")
    ELSE IF fsKind(c.fs, r.path) # Dir \/ leaf(c.fs, r.path) = ""
    THEN sendResponse(c1, "550 %d %s")
    ELSE sendResponse([c1 EXCEPT !.fs[leaf(c.fs, r.path)] = None], "250 OK")

RNFR(c, args_) ==
    LET c1 == setState(c, COMMAND, FALSE, FALSE)
        r  == buildResolvedPath(c.fs, c.ss.m_cwd, pathOf(args_))
    IN
    IF ~authorized(c1.ss) THEN sendResponse(c1, "530 Not logged in")
    ELSE IF ~r.ok THEN sendResponse(c1, "553 %s")
    ELSE IF fsKind(c.fs, r.path) = None THEN sendResponse(c1, "450 %s")
    ELSE sendResponse([c1 EXCEPT !.ss.m_rename = [empty |-> FALSE, path |-> r.path]],
                      "350 OK")

RNTO(c, args_) ==
    LET c1 == setState(c, COMMAND, FALSE, FALSE)
        r  == buildResolvedPath(c.fs, c.ss.m_cwd, pathOf(args_))
        from == leaf(c.fs, c.ss.m_rename.path)
        cleared == [c1 EXCEPT !.ss.m_rename = [empty |-> TRUE, path |-> << >>]]
    IN
    IF ~authorized(c1.ss) THEN sendResponse(c1, "530 Not logged in")
    ELSE IF c.ss.m_rename.empty THEN sendResponse(c1, "503 Bad sequence of commands")
    ELSE IF ~r.ok THEN sendResponse(cleared, "554 %s")
    ELSE IF \/ from = ""
            \/ c.fs[from] = None
            \/ leaf(c.fs, r.path) = ""
            \/ fsKind(c.fs, r.path) = Dir /\ c.fs[from] # Dir
            \/ isFileKind(fsKind(c.fs, r.path)) /\ c.fs[from] = Dir
    THEN sendResponse(cleared, "550 %s")
    ELSE IF leaf(c.fs, r.path) = from THEN sendResponse(cleared, "250 OK")
    ELSE sendResponse([cleared EXCEPT !.fs[leaf(c.fs, r.path)] = c.fs[from],
                                      !.fs[from] = None], "250 OK")

SITE(c, args_) ==
    LET c1 == setState(c, COMMAND, FALSE, FALSE)
        command == args_.text
        arg == IF args_.comps = << >> THEN "" ELSE args_.comps[1]
    IN
    IF command = "HELP" /\ arg = "" THEN sendResponse(c1, "211-Help 211 End")
    ELSE IF ~authorized(c1.ss) THEN sendResponse(c1, "530 Not logged in")
    ELSE CASE command = "USER" -> sendResponse([c1 EXCEPT !.config.user = arg], "200 OK")
           [] command = "PASS" -> sendResponse([c1 EXCEPT !.config.pass = arg], "200 OK")
           [] command = "PORT" ->
                IF arg = "" THEN sendResponse(c1, "550 %s")
                ELSE sendResponse([c1 EXCEPT !.config.port = arg], "200 OK")
           [] command = "DEFLATE" ->
                IF arg = "" \/ decimal(arg) \notin 0 .. 9 THEN sendResponse(c1, "550 %s")
                ELSE sendResponse([c1 EXCEPT !.config.deflateLevel = decimal(arg)], "200 OK")
           [] command = "HOST" ->
                sendResponse([c1 EXCEPT !.config.hostname = arg], "550 Invalid command")
           [] command = "SAVE" ->
                IF ~c.env.file THEN sendResponse(c1, "550 %s")
                ELSE sendResponse([c1 EXCEPT !.config.saved = TRUE], "200 OK")
           [] OTHER -> sendResponse(c1, "550 Invalid command")

SIZE(c, args_) ==
    LET c1 == setState(c, COMMAND, FALSE, FALSE)
        r  == buildResolvedPath(c.fs, c.ss.m_cwd, pathOf(args_))
    IN
    IF ~authorized(c1.ss) THEN sendResponse(c1, "530 Not logged in")
    ELSE IF ~r.ok THEN sendResponse(c1, "553 %s")
    ELSE IF fsKind(c.fs, r.path) = None THEN sendResponse(c1, "550 %s")
    ELSE IF ~isFileKind(fsKind(c.fs, r.path)) THEN sendResponse(c1, "550 Not a file")
    ELSE sendResponse(c1, "213 size")

STAT(c, args_) ==
    IF c.ss.m_state = DATA_CONNECT
    THEN sendResponse(c, "211-FTP server status Waiting for data connection 211 End")
    ELSE IF c.ss.m_state = DATA_TRANSFER
    THEN sendResponse(c, "211-FTP server status Transferred bytes 211 End")
    ELSE IF ~hasArgs(args_)
    THEN sendResponse(c, "211-FTP server status Uptime 211 End")
    ELSE IF ~authorized(c.ss) THEN notLoggedIn(c)
    ELSE xferDir(c, args_, "STAT", FALSE)

STOR(c, args_) ==
    IF ~authorized(c.ss) THEN notLoggedIn(c) ELSE xferFile(c, args_, "STOR")

STOU(c, args_) ==
    sendResponse(setState(c, COMMAND, FALSE, FALSE), "502 Command not implemented")

STRU(c, args_) ==
    LET c1 == setState(c, COMMAND, FALSE, FALSE) IN
    IF args_.text = "F" THEN sendResponse(c1, "200 OK")
    ELSE sendResponse(c1, "504 Unavailable")

SYST(c, args_) ==
    sendResponse(setState(c, COMMAND, FALSE, FALSE), "215 UNIX Type: L8")

TYPE(c, args_) ==
    sendResponse(setState(c, COMMAND, FALSE, FALSE), "200 OK")

USER(c, args_) ==
    LET c1 == [setState(c, COMMAND, FALSE, FALSE) EXCEPT !.ss.m_authorizedUser = FALSE]
        user == c.config.user
        pass == c.config.pass
    IN
    IF user = "" \/ user = args_.text
    THEN LET c2 == [c1 EXCEPT !.ss.m_authorizedUser = TRUE] IN
         IF pass = "" THEN sendResponse(c2, "230 OK")
         ELSE sendResponse(c2, "331 Need password")
    ELSE sendResponse(c1, "430 Invalid user")

\* the dispatch table FtpSession::handlers, sorted by verb
Verbs ==
    { "ABOR", "ALLO", "APPE", "CDUP", "CWD", "DELE", "FEAT", "HELP", "LIST",
      "MDTM", "MKD", "MLSD", "MLST", "MODE", "NLST", "NOOP", "OPTS", "PASS",
      "PASV", "PORT", "PWD", "QUIT", "REST", "RETR", "RMD", "RNFR", "RNTO",
      "SITE", "SIZE", "STAT", "STOR", "STOU", "STRU", "SYST", "TYPE", "USER",
      "XCUP", "XCWD", "XMKD", "XPWD", "XRMD" }

handlers(verb, c, args_) ==
    CASE verb = "ABOR" -> ABOR(c, args_)
      [] verb = "ALLO" -> ALLO(c, args_)
      [] verb = "APPE" -> APPE(c, args_)
      [] verb \in {"CDUP", "XCUP"} -> CDUP(c, args_)
      [] verb \in {"CWD", "XCWD"} -> CWD(c, args_)
      [] verb = "DELE" -> DELE(c, args_)
      [] verb = "FEAT" -> FEAT(c, args_)
      [] verb = "HELP" -> HELP(c, args_)
      [] verb = "LIST" -> LIST(c, args_)
      [] verb = "MDTM" -> MDTM(c, args_)
      [] verb \in {"MKD", "XMKD"} -> MKD(c, args_)
      [] verb = "MLSD" -> MLSD(c, args_)
      [] verb = "MLST" -> MLST(c, args_)
      [] verb = "MODE" -> MODE(c, args_)
      [] verb = "NLST" -> NLST(c, args_)
      [] verb = "NOOP" -> NOOP(c, args_)
      [] verb = "OPTS" -> OPTS(c, args_)
      [] verb = "PASS" -> PASS(c, args_)
      [] verb = "PASV" -> PASV(c, args_)
      [] verb = "PORT" -> PORT(c, args_)
      [] verb \in {"PWD", "XPWD"} -> PWD(c, args_)
      [] verb = "QUIT" -> QUIT(c, args_)
      [] verb = "REST" -> REST(c, args_)
      [] verb = "RETR" -> RETR(c, args_)
      [] verb \in {"RMD", "XRMD"} -> RMD(c, args_)
      [] verb = "RNFR" -> RNFR(c, args_)
      [] verb = "RNTO" -> RNTO(c, args_)
      [] verb = "SITE" -> SITE(c, args_)
      [] verb = "SIZE" -> SIZE(c, args_)
      [] verb = "STAT" -> STAT(c, args_)
      [] verb = "STOR" -> STOR(c, args_)
      [] verb = "STOU" -> STOU(c, args_)
      [] verb = "STRU" -> STRU(c, args_)
      [] verb = "SYST" -> SYST(c, args_)
      [] verb = "TYPE" -> TYPE(c, args_)
      [] verb = "USER" -> USER(c, args_)

\* the commands readCommand lets through while a transfer is set up or running
TransferVerbs == {"ABOR", "NOOP", "PWD", "QUIT", "STAT", "XPWD"}

\* dispatch that answers 503 during a transfer but lets the transfer go on
dispatch_NoAbort(c, line) ==
    LET c0 == [c EXCEPT !.ss.m_timestamp = now] IN
    IF line.verb \notin Verbs
    THEN sendResponseView(c0, "502 Invalid command")
    ELSE IF c0.ss.m_state # COMMAND /\ line.verb \notin TransferVerbs
    THEN closeCommand(sendResponse(c0, "503 Invalid command during transfer"))
    ELSE handlers(line.verb,
                  IF c0.ss.m_state = COMMAND /\ line.verb # "RNTO"
                  THEN [c0 EXCEPT !.ss.m_rename = [empty |-> TRUE, path |-> << >>]]
                  ELSE c0,
                  line.args)

\* one iteration of the command loop of readCommand on a parsed line
dispatch(c, line) ==
    LET c0 == [c EXCEPT !.ss.m_timestamp = now] IN
    IF line.verb \notin Verbs
    THEN sendResponseView(c0, "502 Invalid command")
    ELSE IF c0.ss.m_state # COMMAND /\ line.verb \notin TransferVerbs
    THEN closeCommand(setState(
             sendResponse(c0, "503 Invalid command during transfer"),
             COMMAND, TRUE, TRUE))
    ELSE handlers(line.verb,
                  IF c0.ss.m_state = COMMAND /\ line.verb # "RNTO"
                  THEN [c0 EXCEPT !.ss.m_rename = [empty |-> TRUE, path |-> << >>]]
                  ELSE c0,
                  line.args)

----------------------------------------------------------------------------
(* Transfer pumps.  Buffers count units (one directory line or one block   *)
(* of file data).  A pump returns [c, again]: again is the bool it returns.*)
(* io is the outcome of this call's read or write on the data socket.      *)

Min(a, b) == IF a < b THEN a ELSE b
Max(a, b) == IF a > b THEN a ELSE b

abortTransfer(c, text) ==
    [c |-> setState(sendResponse(c, text), COMMAND, TRUE, TRUE), again |-> FALSE]

\* deflateBuffer whose Z_FINISH never reports Z_STREAM_END
deflateBuffer_Unfinished(c, flush_) ==
    LET out == IF flush_ \/ ~c.env.short
               THEN Min(c.ss.zHeld + c.ss.m_zStreamBuffer, XFER_BUFFERSIZE - c.ss.m_xferBuffer)
               ELSE 0
    IN [c |-> [c EXCEPT !.ss.m_zStreamBuffer = 0,
                        !.ss.m_xferBuffer = @ + out,
                        !.ss.deflated = @ + out,
                        !.ss.zHeld = @ + c.ss.m_zStreamBuffer - out],
        again |-> TRUE]

\* deflateBuffer: zHeld counts the units the compressor holds back
deflateBuffer(c, flush_) ==
    LET inSize  == c.ss.m_zStreamBuffer
        outSize == XFER_BUFFERSIZE - c.ss.m_xferBuffer
        held    == c.ss.zHeld + inSize
        out     == IF flush_ \/ ~c.env.short THEN Min(held, outSize) ELSE 0
        c1      == [c EXCEPT !.ss.m_zStreamBuffer = 0,
                             !.ss.m_xferBuffer = @ + out,
                             !.ss.deflated = @ + out,
                             !.ss.zHeld = held - out]
    IN
    IF ~c.env.zinit THEN abortTransfer(c, "501 zlib error")
    ELSE IF flush_ /\ held - out = 0
    THEN [c |-> [c1 EXCEPT !.ss.m_zFlushed = TRUE], again |-> TRUE]
    ELSE [c |-> c1, again |-> TRUE]

\* inflateBuffer
inflateBuffer(c) ==
    LET inSize  == c.ss.m_zStreamBuffer
        outSize == XFER_BUFFERSIZE - c.ss.m_xferBuffer
        held    == c.ss.zHeld + inSize
        out     == IF c.env.short THEN 0 ELSE Min(held, outSize)
        c1      == [c EXCEPT !.ss.m_zStreamBuffer = 0,
                             !.ss.m_xferBuffer = @ + out,
                             !.ss.zHeld = held - out]
    IN
    IF ~c.env.zinit \/ (inSize = 0 /\ held = 0) THEN abortTransfer(c, "501 zlib error")
    ELSE IF c.ss.zEnd /\ held - out = 0
    THEN [c |-> [c1 EXCEPT !.ss.m_zFlushed = TRUE], again |-> TRUE]
    ELSE [c |-> c1, again |-> TRUE]

\* m_dataSocket->write (m_xferBuffer), the tail of the sending pumps
sendPending(c, io) ==
    CASE io = "block" -> [c |-> blocked(c, "data"), again |-> FALSE]
      [] io \in {"err", "eof"} ->
            abortTransfer(dataFault(c, "write"), "426 Connection broken during transfer")
      [] OTHER ->
            LET n == IF c.env.short THEN 1 ELSE c.ss.m_xferBuffer IN
            [c |-> [c EXCEPT !.ss.m_xferBuffer = @ - n,
                             !.ss.deflated = Max(@ - n, 0),
                             !.ss.rawSent = @ \/ n > c.ss.deflated,
                             !.ss.zInline = @ \/ (c.ss.m_dataSocket = "command"
                                                     /\ c.ss.deflated > 0),
                             !.ss.bodySent = @ + n,
                             !.ss.wrote = IF c.ss.m_dataSocket = "command"
                                          THEN Append(@, "entry") ELSE @,
                             !.ss.m_timestamp = now],
             again |-> TRUE]

\* produce that leaves the io-buffer as it was
produce_Nothing(c, dent) == [c |-> c, again |-> TRUE]

\* the entry of listTransfer for dent: fillDirent, and for NLST the copy of
\* the path; the entry is in the io-buffer or the transfer is aborted
produce(c, dent) ==
    IF direntSize(dent) > freeSize(c.ss)
    THEN abortTransfer(c, IF c.ss.m_xferDirMode = "NLST" THEN "501 %s" ELSE "425 %s")
    ELSE [c |-> markUsed(c, direntSize(dent)), again |-> TRUE]

RECURSIVE listTransfer(_, _)
listTransfer(c, io) ==
    IF c.ss.m_xferBuffer # 0 THEN sendPending(c, io)
    ELSE IF c.ss.m_zStreamBuffer # 0 THEN deflateBuffer(c, FALSE)
    ELSE IF c.ss.m_deflate /\ ~c.ss.m_zFlushed /\ c.ss.m_eof THEN deflateBuffer(c, TRUE)
    ELSE IF c.ss.m_eof /\ (c.ss.m_deflate = c.ss.m_zFlushed)
    THEN abortTransfer(c, IF c.ss.m_xferDirMode \in {"MLST", "STAT"}
                          THEN "250 OK" ELSE "226 OK")
    ELSE IF ~c.ss.m_dir.open \/ c.ss.m_dir.entries = << >>
    THEN [c |-> [c EXCEPT !.ss.m_eof = TRUE], again |-> TRUE]
    ELSE LET dent == Head(c.ss.m_dir.entries)
             c1   == [c EXCEPT !.ss.m_dir.entries = Tail(@)]
         IN IF dent \in {".", ".."} THEN listTransfer(c1, io)
            ELSE IF c.ss.m_xferDirMode # "NLST"
                    /\ fsKind(c.fs, Append(c.ss.m_lwd, dent)) = None
            THEN listTransfer(c1, io)
            ELSE LET p == produce(c1, dent) IN
                 IF ~p.again \/ c.ss.m_deflate THEN p
                 ELSE sendPending(p.c, io)

globTransfer(c, io) ==
    IF c.ss.m_xferBuffer # 0 THEN sendPending(c, io)
    ELSE IF c.ss.m_glob = << >> THEN abortTransfer(c, "226 OK")
    ELSE sendPending([c EXCEPT !.ss.m_glob = Tail(@),
                               !.ss.m_xferBuffer = @ + 1,
                               !.ss.m_filePosition = @ + 1], io)

\* the units fs::File::read finds past the file offset
fileLeft(c) ==
    LET k == fsKind(c.fs, c.ss.m_file.path) IN
    IF ~isFileKind(k) THEN 0 ELSE Max(k[2] - c.ss.m_fileOffset, 0)

retrieveTransfer(c, io) ==
    IF c.ss.m_xferBuffer # 0 THEN sendPending(c, io)
    ELSE IF c.ss.m_zStreamBuffer # 0 THEN deflateBuffer(c, FALSE)
    ELSE IF c.ss.m_deflate /\ ~c.ss.m_zFlushed /\ c.ss.m_eof THEN deflateBuffer(c, TRUE)
    ELSE IF ~c.ss.m_devZero
    THEN IF c.ss.m_eof /\ (c.ss.m_deflate = c.ss.m_zFlushed)
         THEN abortTransfer(c, "226 OK")
         ELSE IF ~c.env.file \/ fsKind(c.fs, c.ss.m_file.path) = Dir
         THEN abortTransfer(c, "451 %s")
         ELSE IF fileLeft(c) = 0
         THEN [c |-> [c EXCEPT !.ss.m_eof = TRUE], again |-> TRUE]
         ELSE LET rc == IF c.env.short THEN 1 ELSE Min(fileLeft(c), XFER_BUFFERSIZE)
                  c1 == [c EXCEPT !.ss.m_fileOffset = @ + rc,
                                  !.ss.m_filePosition = @ + rc]
              IN IF c.ss.m_deflate
                 THEN [c |-> [c1 EXCEPT !.ss.m_zStreamBuffer = rc], again |-> TRUE]
                 ELSE sendPending([c1 EXCEPT !.ss.m_xferBuffer = rc], io)
    ELSE LET c1 == [c EXCEPT !.ss.m_filePosition = @ + XFER_BUFFERSIZE] IN
         IF c.ss.m_deflate
         THEN [c |-> [c1 EXCEPT !.ss.m_zStreamBuffer = XFER_BUFFERSIZE], again |-> TRUE]
         ELSE sendPending([c1 EXCEPT !.ss.m_xferBuffer = XFER_BUFFERSIZE], io)

\* fs::File::write (m_xferBuffer) and the /devZero sink, the tail of storeTransfer
storePending(c) ==
    IF c.ss.m_devZero
    THEN [c |-> [c EXCEPT !.ss.m_filePosition = @ + c.ss.m_xferBuffer,
                          !.ss.m_xferBuffer = 0], again |-> TRUE]
    ELSE IF ~c.env.file
    THEN abortTransfer(c, "426 %s")
    ELSE LET rc   == IF c.env.short THEN 1 ELSE c.ss.m_xferBuffer
             name == leaf(c.fs, c.ss.m_file.path)
             size == IF isFileKind(c.fs[name]) THEN c.fs[name][2] ELSE 0
             at   == IF c.ss.m_fileMode = "ab" THEN size ELSE c.ss.m_fileOffset
         IN [c |-> [c EXCEPT !.fs[name] = IF isFileKind(@) THEN File(Max(size, at + rc)) ELSE @,
                             !.ss.m_fileOffset = at + rc,
                             !.ss.m_xferBuffer = @ - rc,
                             !.ss.m_filePosition = @ + rc],
             again |-> TRUE]

\* the client has more data for the file only while the file stays small
roomToStore(c) ==
    LET name == leaf(c.fs, c.ss.m_file.path)
        size == IF name # "" /\ isFileKind(c.fs[name]) THEN c.fs[name][2] ELSE 0
        at   == IF c.ss.m_fileMode = "ab" THEN size ELSE c.ss.m_fileOffset
    IN at + c.ss.zHeld + 1 <= MaxFile

storeTransfer(c, io) ==
    IF c.ss.m_xferBuffer # 0 THEN storePending(c)
    ELSE IF c.ss.m_zStreamBuffer # 0 THEN inflateBuffer(c)
    ELSE IF c.ss.m_deflate /\ ~c.ss.m_zFlushed /\ c.ss.m_eof THEN inflateBuffer(c)
    ELSE IF c.ss.m_eof /\ (c.ss.m_deflate = c.ss.m_zFlushed)
    THEN abortTransfer(c, "226 OK")
    ELSE CASE io = "block" -> [c |-> blocked(c, "data"), again |-> FALSE]
           [] io = "err"   -> abortTransfer(dataFault(c, "read"), "451 %s")
           [] io = "eof" \/ ~roomToStore(c) ->
                 [c |-> [c EXCEPT !.ss.m_eof = TRUE], again |-> TRUE]
           [] OTHER ->
                 LET c1 == [c EXCEPT !.ss.m_timestamp = now] IN
                 IF c.ss.m_deflate
                 THEN [c |-> [c1 EXCEPT !.ss.m_zStreamBuffer = 1,
                                        !.ss.zEnd = @ \/ c.env.last], again |-> TRUE]
                 ELSE storePending([c1 EXCEPT !.ss.m_xferBuffer = 1])

\* (this->*m_transfer) ()
transfer(c, io) ==
    CASE c.ss.m_transfer = "listTransfer"     -> listTransfer(c, io)
      [] c.ss.m_transfer = "globTransfer"     -> globTransfer(c, io)
      [] c.ss.m_transfer = "retrieveTransfer" -> retrieveTransfer(c, io)
      [] c.ss.m_transfer = "storeTransfer"    -> storeTransfer(c, io)

RECURSIVE pump(_, _)
\* the reactor's loop of at most ten transfer calls; i counts the calls made
pump(c, i) ==
    IF i >= PUMP_ITERATIONS THEN c
    ELSE LET r == transfer(c, IF i < c.env.ready THEN "ok" ELSE c.env.data) IN
         IF r.again THEN pump(r.c, i + 1) ELSE r.c

----------------------------------------------------------------------------
(* readCommand *)

\* the per-step record of what was done, cleared when a new step begins
clearStep(ss) ==
    [ss EXCEPT !.log = << >>, !.command = "", !.args = "", !.unlocked = {},
               !.stateBefore = COMMAND, !.openBefore = FALSE, !.failed = FALSE,
               !.wouldBlock = "", !.dataError = "", !.wrote = << >>,
               !.dropped = 0, !.rawSent = FALSE, !.zInline = FALSE,
               !.bodySent = IF ss.m_state = COMMAND THEN 0 ELSE @,
               !.dueBefore = -1, !.sinceBefore = ""]

\* one iteration of the command loop, with the step record and the login
\* history brought up to date
stepRecord(c, line) ==
    [c EXCEPT !.ss = [clearStep(@) EXCEPT !.command = line.verb,
                                         !.args = line.args.text,
                                         !.stateBefore = c.ss.m_state,
                                         !.openBefore = c.ss.m_commandSocket,
                                         !.dueBefore = c.ss.lastRest,
                                         !.sinceBefore = c.ss.sinceRest]]

\* the command lines whose handling does not go through setState: the
\* unrecognised ones, NOOP, PWD, QUIT, and in COMMAND state ABOR and the
\* STAT without an argument
skipsSetState(line) ==
    \/ line.verb \notin Verbs
    \/ line.verb \in {"ABOR", "NOOP", "PWD", "QUIT", "XPWD"}
    \/ line.verb = "STAT" /\ ~hasArgs(line.args)

XferFileVerbs == {"APPE", "RETR", "STOR"}

\* the history of the session after the command `line', dispatched in
\* context c (the context before it), has led to the context after
history(c, line, after) ==
    LET handled == line.verb \in Verbs
                   /\ (c.ss.m_state = COMMAND \/ line.verb \in TransferVerbs)
        xfer == handled /\ line.verb \in XferFileVerbs
        rest == handled /\ line.verb = "REST"
    IN [after EXCEPT
          !.ss.afterAbort = (line.verb = "ABOR" /\ c.ss.m_state # COMMAND),
          !.ss.userMatched = IF handled /\ line.verb = "USER"
                             THEN line.args.text = c.config.user ELSE @,
          !.ss.passMatched = IF handled /\ line.verb = "PASS"
                             THEN line.args.text = c.config.pass ELSE @,
          !.ss.loginSeen = IF handled /\ line.verb = "PASS"
                           THEN @ \/ (c.ss.userMatched /\ line.args.text = c.config.pass)
                           ELSE @,
          !.ss.needPass = IF handled /\ line.verb = "USER"
                          THEN "331 Need password" \in {after.ss.log[i] : i \in DOMAIN after.ss.log}
                          ELSE IF handled /\ line.verb = "PASS"
                          THEN @ /\ ~after.ss.m_authorizedPass
                          ELSE @,
          !.ss.lastRest = IF rest /\ after.ss.log = <<"350 OK">>
                          THEN decimal(line.args.text)
                          ELSE IF rest \/ xfer THEN -1 ELSE @,
          !.ss.sinceRest = IF rest THEN ""
                           ELSE IF @ # "reset" /\ skipsSetState(line) THEN "kept"
                           ELSE "reset",
          !.ss.xferDone = IF xfer THEN TRUE ELSE @ /\ ~rest,
          !.ss.afterRnfr = (handled /\ line.verb = "RNFR" /\ after.ss.log = <<"350 OK">>)]

dispatchLine(c, line) == history(c, line, dispatch(stepRecord(c, line), line))

\* one turn of the command loop of readCommand
commandLoop(c) ==
    IF c.ss.m_commandBuffer = << >> THEN c
    ELSE dispatchLine([c EXCEPT !.ss.m_commandBuffer = Tail(@)],
                      Head(c.ss.m_commandBuffer))

\* the command loop has a complete line to go on with: readCommand leaves
\* lines in the buffer without looping only while m_urgent is set
loopPending(ss) == ss.m_commandBuffer # << >> /\ ~ss.m_urgent

\* readCommand up to its command loop, whose turns are the steps that
\* follow while loopPending holds. rd is what the socket delivers: kind
\* "err" (rc < 0), "eof" (rc = 0), "block" (EWOULDBLOCK) or "data" with the
\* complete lines received, preceded by the Telnet data mark when mark is
\* set; atMark is what Socket::atMark returns.
\* readCommand that leaves urgent mode at the first in-band read, without
\* looking for the data mark
readCommand_Unscanned(c, events_, rd, atMark) ==
    IF POLLPRI \in events_
    THEN [c EXCEPT !.ss.m_urgent = TRUE,
                   !.ss.m_commandBuffer =
                       IF atMark = 0 /\ rd.kind = "data" THEN rd.lines ELSE << >>,
                   !.ss.m_timestamp = now]
    ELSE IF POLLIN \notin events_ THEN c
    ELSE IF rd.kind # "data" THEN closeCommand(c)
    ELSE [c EXCEPT !.ss.m_timestamp = now,
                   !.ss.m_urgent = FALSE,
                   !.ss.m_commandBuffer = @ \o rd.lines]

readCommand(c, events_, rd, atMark) ==
    IF POLLPRI \in events_
    THEN IF atMark < 0 THEN closeCommand([c EXCEPT !.ss.m_urgent = TRUE])
         ELSE IF rd.kind = "err"
         THEN closeCommand([c EXCEPT !.ss.m_urgent = TRUE,
                                     !.ss.m_commandBuffer = << >>])
         ELSE \* not at the mark: the in-band data read stays in the buffer;
              \* at the mark: the urgent data is read and dropped
              [c EXCEPT !.ss.m_urgent = TRUE,
                        !.ss.m_commandBuffer =
                            IF atMark = 0 /\ rd.kind = "data" THEN rd.lines ELSE << >>,
                        !.ss.m_timestamp = now,
                        !.ss.wouldBlock = IF rd.kind = "block" THEN "read" ELSE ""]
    ELSE IF POLLIN \in events_ /\ Len(c.ss.m_commandBuffer) >= COMMAND_BUFFERSIZE
    THEN closeCommand(c)
    ELSE IF POLLIN \in events_ /\ rd.kind # "data"
    THEN closeCommand(IF rd.kind = "block" THEN blocked(c, "read") ELSE c)
    ELSE IF POLLIN \in events_ /\ c.ss.m_urgent /\ ~rd.mark
    THEN [c EXCEPT !.ss.m_timestamp = now, !.ss.m_commandBuffer = @ \o rd.lines]
    ELSE IF POLLIN \notin events_ THEN c
    ELSE [c EXCEPT !.ss.m_timestamp = now,
                   !.ss.m_urgent = FALSE,
                   !.ss.dropped = IF c.ss.m_urgent THEN Len(c.ss.m_commandBuffer) ELSE 0,
                   !.ss.m_commandBuffer = IF c.ss.m_urgent THEN rd.lines ELSE @ \o rd.lines]

----------------------------------------------------------------------------
(* The session object *)

\* FtpSession::FtpSession; stamp is the value m_timestamp holds when the
\* greeting could not be written
FtpSession(cfg, env, stamp) ==
    LET ss0 == [NoSession EXCEPT !.live = TRUE, !.m_commandSocket = TRUE,
                                 !.m_authorizedUser = (cfg.user = ""),
                                 !.m_authorizedPass = (cfg.pass = ""),
                                 !.m_timestamp = stamp]
        c   == sendResponse([ss |-> ss0, config |-> cfg, fs |-> fs, env |-> env],
                            "220 Hello!")
    IN c.ss

\* FtpSession::dead
dead(ss) == ~(ss.m_commandSocket \/ ss.m_pasvSocket \/ ss.m_dataSocket # "null")

----------------------------------------------------------------------------
(* The reactor: FtpSession::poll *)

Idle == [phase |-> "wait", pollInfo |-> << >>, cur |-> 0, idx |-> 0,
         step |-> "", cmdMatch |-> FALSE]

\* the poll entries a session contributes; addr names the socket object
pollEntries(s, ss) ==
    (IF ss.m_commandSocket
     THEN << [s |-> s, addr |-> "command",
              events |-> {POLLIN, POLLPRI}
                         \cup (IF ss.m_responseBuffer # << >> THEN {POLLOUT} ELSE {})] >>
     ELSE << >>)
    \o
    (CASE ss.m_state = COMMAND -> << >>
       [] ss.m_state = DATA_CONNECT /\ ss.m_pasv ->
            << [s |-> s, addr |-> "pasv", events |-> {POLLIN}] >>
       [] ss.m_state = DATA_CONNECT /\ ~ss.m_pasv ->
            << [s |-> s, addr |-> ss.m_dataSocket, events |-> {POLLOUT}] >>
       [] ss.m_state = DATA_TRANSFER ->
            << [s |-> s, addr |-> ss.m_dataSocket,
                events |-> IF ss.m_recv THEN {POLLIN} ELSE {POLLOUT}] >>)

\* building the poll set dereferences a socket the session does not have
pollDerefsNull(ss) ==
    \/ ss.m_state = DATA_CONNECT /\ ss.m_pasv /\ ~ss.m_pasvSocket
    \/ ss.m_state = DATA_CONNECT /\ ~ss.m_pasv /\ ss.m_dataSocket = "null"
    \/ ss.m_state = DATA_TRANSFER /\ ss.m_dataSocket = "null"

RECURSIVE buildPollInfo(_, _)
buildPollInfo(S, s) ==
    IF s > MaxSessions THEN << >>
    ELSE (IF S[s].live THEN pollEntries(s, S[s]) ELSE << >>) \o buildPollInfo(S, s + 1)

\* the indexes of the entries of session s in the poll set
ownEntries(pi, s) == {i \in DOMAIN pi : pi[i].s = s}

\* `handled' of the reactor loop: some entry of the poll set has an event
handledFlag(pi) == \E i \in DOMAIN pi : pi[i].revents # {}

\* the entry refers to the socket the handle points at now
matchesCommand(ss, e) == ss.m_commandSocket /\ e.addr = "command"
matchesPasv(ss, e) == ss.m_pasvSocket /\ e.addr = "pasv" /\ "pasv" \notin ss.fresh
matchesData(ss, e) ==
    /\ ss.m_dataSocket # "null"
    /\ e.addr = ss.m_dataSocket
    /\ ss.m_dataSocket = "data" => "data" \notin ss.fresh

ctx(s, env) == [ss |-> clearStep(sessions[s]), config |-> config, fs |-> fs, env |-> env]

\* where the reactor loop goes after the step on entry idx of session cur
nextEntry(r) ==
    LET later == {i \in ownEntries(r.pollInfo, r.cur) : i > r.idx} IN
    IF later = {} THEN [r EXCEPT !.step = "sweep", !.idx = 0, !.cmdMatch = FALSE]
    ELSE [r EXCEPT !.step = "command", !.cmdMatch = FALSE,
                   !.idx = CHOOSE i \in later : \A j \in later : i <= j]

\* the start of the loop body for session s
enterSession(r, s) ==
    LET own == ownEntries(r.pollInfo, s) IN
    IF own = {} THEN [r EXCEPT !.cur = s, !.step = "sweep", !.idx = 0, !.cmdMatch = FALSE]
    ELSE [r EXCEPT !.cur = s, !.step = "command", !.cmdMatch = FALSE,
                   !.idx = CHOOSE i \in own : \A j \in own : i <= j]

\* the sessions of the vector after s
laterSessions(s) == {t \in SessionIds : t > s /\ sessions[t].live}

----------------------------------------------------------------------------
(* Steps of the program *)

crashed == [Idle EXCEPT !.phase = "crashed"]

\* every session but s, with the record of the previous step cleared
others(s, ss) == [t \in SessionIds |-> IF t = s THEN ss ELSE clearStep(sessions[t])]

\* the revents Socket::poll can report for an entry
Revents(e) ==
    {{}, {POLLERR}, {POLLHUP}}
    \cup {{x} : x \in e.events}
    \cup (IF {POLLIN, POLLOUT} \subseteq e.events THEN {{POLLIN, POLLOUT}} ELSE {})
    \cup (IF POLLIN \in e.events /\ e.addr = "command" THEN {{POLLIN, POLLHUP}} ELSE {})

AllRevents ==
    {{}, {POLLERR}, {POLLHUP}, {POLLIN}, {POLLPRI}, {POLLOUT},
     {POLLIN, POLLOUT}, {POLLIN, POLLHUP}}

\* the server accepts a connection: a session is added to the vector
Accept(s, env, stamp) ==
    /\ reactor.phase = "wait"
    /\ ~sessions[s].live
    /\ \A t \in SessionIds : t < s => sessions[t].live
    /\ stamp \in {0, now}
    /\ sessions' = others(s, FtpSession(config, env, stamp))
    /\ UNCHANGED <<config, fs, now, reactor>>

RECURSIVE compact(_, _)
compact(S, s) ==
    IF s > MaxSessions THEN << >>
    ELSE (IF S[s].live /\ ~dead(S[s]) THEN <<clearStep(S[s])>> ELSE << >>)
         \o compact(S, s + 1)

\* the server erases the sessions that are dead
Prune ==
    /\ reactor.phase = "wait"
    /\ \E s \in SessionIds : sessions[s].live /\ dead(sessions[s])
    /\ LET kept == compact(sessions, 1) IN
       sessions' = [s \in SessionIds |-> IF s <= Len(kept) THEN kept[s] ELSE NoSession]
    /\ UNCHANGED <<config, fs, now, reactor>>

\* time passes between two calls of poll
AdvanceClock(d, horizon) ==
    /\ reactor.phase = "wait"
    /\ now + d <= horizon /\ now + d <= MaxNow
    /\ now' = now + d
    /\ sessions' = others(0, NoSession)
    /\ UNCHANGED <<config, fs, reactor>>

\* FtpSession::poll up to the session loop: the pending-close sockets whose
\* peer has answered are dropped (keep[s] stay), the poll set is built and
\* Socket::poll fills in revents rv
Poll(keep, menu) ==
    /\ reactor.phase = "wait"
    /\ \E s \in SessionIds : sessions[s].live
    /\ \A s \in SessionIds : keep[s] <= sessions[s].m_pendingCloseSocket
                             /\ (keep[s] < sessions[s].m_pendingCloseSocket
                                    => keep[s] \in {0, MaxPending})
    /\ LET S1 == [s \in SessionIds |->
                    [clearStep(sessions[s]) EXCEPT
                        !.m_pendingCloseSocket = keep[s],
                        !.unlocked = IF keep[s] < sessions[s].m_pendingCloseSocket
                                     THEN {"m_pendingCloseSocket"} ELSE {},
                        !.fresh = {}]]
           pi == buildPollInfo(S1, 1)
           first == CHOOSE s \in SessionIds : S1[s].live
                                              /\ \A t \in SessionIds : S1[t].live => s <= t
       IN
       /\ sessions' = S1
       /\ IF \E s \in SessionIds : S1[s].live /\ pollDerefsNull(S1[s])
          THEN reactor' = crashed
          ELSE IF pi = << >> THEN reactor' = Idle
          ELSE \E rv \in [DOMAIN pi -> menu] :
                 /\ \A i \in DOMAIN pi : rv[i] \in Revents(pi[i])
                 /\ reactor' = enterSession(
                        [Idle EXCEPT !.phase = "session",
                                     !.pollInfo = [i \in DOMAIN pi |->
                                         [s |-> pi[i].s, addr |-> pi[i].addr,
                                          revents |-> rv[i]]]],
                        first)
    /\ UNCHANGED <<config, fs, now>>

\* what the command socket delivers to a read
Read(lines) == [kind |-> "data", mark |-> FALSE, lines |-> lines]
Marked(lines) == [kind |-> "data", mark |-> TRUE, lines |-> lines]
NoRead == Read(<< >>)
ReadFails == {[kind |-> k, mark |-> FALSE, lines |-> << >>] : k \in {"err", "eof", "block"}}

\* the step is over for session s, whose context is now c
finish(s, c, r) ==
    /\ sessions' = others(s, c.ss)
    /\ config' = c.config
    /\ fs' = c.fs
    /\ reactor' = r

\* after readCommand or a turn of its loop: on with the loop, or on to the
\* rest of the loop body
afterCommand(s, match, c) ==
    finish(s, c, [reactor EXCEPT !.cmdMatch = match,
                                 !.step = IF loopPending(c.ss) THEN "loop" ELSE "data"])

\* the command-socket part of the loop body, after writeResponse has left
\* context c: readCommand on POLLIN or POLLPRI
commandEntry(s, e, match, c, rd, atMark) ==
    LET reads == match /\ e.revents \cap {POLLIN, POLLPRI} # {} IN
    /\ ~reads => rd = NoRead
    /\ reads => Len(c.ss.m_commandBuffer) + Len(rd.lines) <= COMMAND_BUFFERSIZE
    /\ rd.mark => c.ss.m_urgent /\ POLLPRI \notin e.revents
    /\ atMark # 1 => POLLPRI \in e.revents
    /\ IF reads /\ ~c.ss.m_commandSocket
       THEN reactor' = crashed /\ UNCHANGED <<sessions, config, fs>>
       ELSE afterCommand(s, match, IF reads THEN readCommand(c, e.revents, rd, atMark) ELSE c)

\* the command-socket part of the loop body for the entry at hand
HandleCommand(env, rd, atMark) ==
    /\ reactor.phase = "session" /\ reactor.step = "command"
    /\ LET s == reactor.cur
           e == reactor.pollInfo[reactor.idx]
           match == e.revents # {} /\ matchesCommand(sessions[s], e)
       IN commandEntry(s, e, match,
                       IF match /\ sessions[s].m_dataSocket = "null" /\ POLLOUT \in e.revents
                       THEN writeResponse(ctx(s, env)) ELSE ctx(s, env),
                       rd, atMark)
    /\ UNCHANGED now

\* the line to dispatch is a PASV that gets as far as
\* m_commandSocket->sockName () with the command socket closed
nullSockName(c) ==
    /\ c.ss.m_commandBuffer # << >>
    /\ Head(c.ss.m_commandBuffer).verb = "PASV"
    /\ c.ss.m_state = COMMAND
    /\ authorized(c.ss)
    /\ c.env.socket # "create"
    /\ ~c.ss.m_commandSocket

\* the line to dispatch is a PORT whose port number overflows the signed
\* val on the way through the parsing loop
valOverflows(c) ==
    /\ c.ss.m_commandBuffer # << >>
    /\ Head(c.ss.m_commandBuffer).verb = "PORT"
    /\ c.ss.m_state = COMMAND
    /\ authorized(c.ss)
    /\ portArgument(Head(c.ss.m_commandBuffer).args).over

\* the handler of the line to dispatch runs into undefined behaviour
undefinedCall(c) == nullSockName(c) \/ valOverflows(c)

\* a turn of the command loop of readCommand; undefined behaviour either
\* brings the process down or goes unnoticed, the call through the null
\* handle returning and the signed val wrapping around
CommandLoop(env) ==
    /\ reactor.phase = "session" /\ reactor.step = "loop"
    /\ \E fault \in IF undefinedCall(ctx(reactor.cur, env)) THEN BOOLEAN ELSE {FALSE} :
          IF fault
          THEN reactor' = crashed /\ UNCHANGED <<sessions, config, fs>>
          ELSE afterCommand(reactor.cur, reactor.cmdMatch,
                            commandLoop(ctx(reactor.cur, env)))
    /\ UNCHANGED now

\* the data-socket part of the loop body: DATA_CONNECT and DATA_TRANSFER
dataEvent(c, revents) ==
    IF revents \cap {POLLERR, POLLHUP} # {}
    THEN setState(sendResponse(dataFault(c, "poll"), "426 Data connection failed"),
                  COMMAND, TRUE, TRUE)
    ELSE IF c.ss.m_state = DATA_CONNECT
    THEN IF POLLIN \in revents THEN dataAccept(c)
         ELSE IF POLLOUT \in revents
         THEN setState(sendResponse(c, "150 Ready"), DATA_TRANSFER, TRUE, FALSE)
         ELSE c
    ELSE IF revents \cap {POLLIN, POLLOUT} # {} THEN pump(c, 0)
    ELSE c

\* the data-socket part of the loop body, the command socket done with
dataEntry(s, e, c) ==
    LET isData == e.revents # {} /\ (matchesPasv(c.ss, e) \/ matchesData(c.ss, e)) IN
    IF isData /\ c.ss.m_state = COMMAND
    THEN reactor' = crashed /\ UNCHANGED <<sessions, config, fs>>
    ELSE finish(s, IF isData THEN dataEvent(c, e.revents) ELSE c, nextEntry(reactor))

\* the rest of the loop body for the entry at hand: the close of the
\* command socket on POLLERR or POLLHUP, then the data socket
HandleData(env) ==
    /\ reactor.phase = "session" /\ reactor.step = "data"
    /\ LET s  == reactor.cur
           e  == reactor.pollInfo[reactor.idx]
           cmdEnd == reactor.cmdMatch /\ e.revents \cap {POLLERR, POLLHUP} # {}
       IN dataEntry(s, e, IF cmdEnd THEN closeCommand(ctx(s, env)) ELSE ctx(s, env))
    /\ UNCHANGED now

\* the end of the loop body: the idle check; then on to the next session
Sweep ==
    /\ reactor.phase = "session" /\ reactor.step = "sweep"
    /\ LET s == reactor.cur
           c == ctx(s, DefaultEnv)
           idle == ~handledFlag(reactor.pollInfo)
                   /\ now - c.ss.m_timestamp >= IDLE_TIMEOUT
           c1 == IF idle THEN closeData(closePasv(closeCommand(c))) ELSE c
           later == laterSessions(s)
       IN /\ sessions' = others(s, c1.ss)
          /\ reactor' = IF later = {} THEN Idle
                        ELSE enterSession(reactor,
                                 CHOOSE t \in later : \A u \in later : t <= u)
    /\ UNCHANGED <<config, fs, now>>

----------------------------------------------------------------------------
(* Initial state and inputs *)

Config(user, pass) ==
    [user |-> user, pass |-> pass, port |-> "5000", deflateLevel |-> 6,
     hostname |-> "", saved |-> FALSE]

\* /a is a regular file of one unit, /d a directory, /b does not exist
InitFs == [n \in {"a", "b", "d"} |-> CASE n = "a" -> File(1) [] n = "b" -> None [] n = "d" -> Dir]

InitWith(configs) ==
    /\ sessions = [s \in SessionIds |-> NoSession]
    /\ config \in configs
    /\ fs = InitFs
    /\ now = 0
    /\ reactor = Idle

L(verb, args) == [verb |-> verb, args |-> args]

\* a received batch: one line, or one line followed by one of `more'
Batches(lines, more) ==
    {Read(<<l>>) : l \in lines} \cup {Read(<<l, m>>) : l \in lines, m \in more}

NextWith(slots, envs, reads, menu, horizon) ==
    \/ \E s \in slots, w \in WriteOutcomes, stamp \in {0, now} :
          Accept(s, [DefaultEnv EXCEPT !.write = w], stamp)
    \/ Prune
    \/ \E d \in ClockSteps : AdvanceClock(d, horizon)
    \/ \E keep \in [SessionIds -> 0 .. MaxPending] : Poll(keep, menu)
    \/ \E env \in envs, rd \in reads \cup ReadFails \cup {NoRead}, atMark \in {-1, 0, 1} :
          HandleCommand(env, rd, atMark)
    \/ \E env \in envs : CommandLoop(env)
    \/ \E env \in envs : HandleData(env)
    \/ Sweep

----------------------------------------------------------------------------
(* Specification for the rules of the transfer states: one client, no      *)
(* login configured, commands sent while a transfer is set up or running   *)

LinesAbort ==
    {L("PASV", W("")), L("PORT", W("h1,h2,h3,h4,p1,p2")),
     L("REST", W("1")), L("RETR", P(TRUE, <<"a">>)), L("LIST", W("")),
     L("ABOR", W("")), L("NOOP", W("")), L("FOO", W("")), L("TYPE", W("I"))}

MoreAbort == {L("ABOR", W(""))}

EnvsAbort ==
    {[DefaultEnv EXCEPT !.write = w] : w \in {"all", "err"}}
    \cup {[DefaultEnv EXCEPT !.data = "block"]}

MenuAbort == {{}, {POLLIN}, {POLLOUT}, {POLLHUP}}

InitAbort == InitWith({Config("", "")})

NextAbort ==
    NextWith({1}, EnvsAbort, Batches(LinesAbort, MoreAbort), MenuAbort, IDLE_TIMEOUT \div 2)

SpecAbort == InitAbort /\ [][NextAbort]_vars

Range(seq) == {seq[i] : i \in DOMAIN seq}

\* the session has returned to COMMAND state with its transfer torn down
TransferAborted(ss) ==
    ss.m_state = COMMAND /\ ~ss.m_pasvSocket /\ ss.m_dataSocket = "null"

C2_AbortReplies ==
    \A s \in SessionIds :
        LET ss == sessions[s] IN
        (ss.command = "ABOR" /\ ss.stateBefore # COMMAND /\ ss.openBefore /\ ~ss.failed)
        => (ss.log = <<"225 Aborted", "426 Transfer aborted">> /\ ss.m_state = COMMAND)

\* what an ABOR leaves behind for the command that follows
CleanSlate(ss) ==
    /\ ss.m_state = COMMAND
    /\ ss.m_restartPosition = 0
    /\ ~ss.m_file.open
    /\ ~ss.m_dir.open
    /\ ss.m_dataSocket = "null"

\* C3: from an ABOR handled in DATA_CONNECT or DATA_TRANSFER until the next
\* command is dispatched, the session is in COMMAND state with
\* restartPosition 0, no open file, no open directory and no data socket;
\* and the ABOR leaves the command socket open unless a reply of it could
\* not be queued or written.
C3_AfterAbort ==
    \A s \in SessionIds :
        LET ss == sessions[s] IN
        /\ ss.afterAbort => CleanSlate(ss)
        /\ (ss.command = "ABOR" /\ ss.stateBefore # COMMAND /\ ss.openBefore /\ ~ss.failed)
           => ss.m_commandSocket

\* an ABOR ended a running transfer, and the session is about to dispatch
\* the next command of the same batch on its open command socket
C3_Witness ==
    \E s \in SessionIds :
        /\ sessions[s].afterAbort
        /\ sessions[s].command = "ABOR"
        /\ sessions[s].stateBefore = DATA_TRANSFER
        /\ sessions[s].m_commandSocket
        /\ sessions[s].m_commandBuffer # << >>
        /\ reactor.step = "loop"

----------------------------------------------------------------------------
(* Specification for the restart offset: one client of a server without    *)
(* credentials sends REST, transfer commands and other commands.           *)

LinesRest == {L("REST", W("1")), L("TYPE", W("I")), L("PASV", W("")), L("NOOP", W("")),
              L("FOO", W("")),
              L("RETR", P(TRUE, <<"a">>)), L("RETR", P(TRUE, <<"b">>)),
              L("RETR", P(TRUE, <<"b", "x">>)),
              L("STOR", P(TRUE, <<"b">>)), L("APPE", P(TRUE, <<"a">>))}
MoreRest == {L("RETR", P(TRUE, <<"a">>))}
EnvsRest == {DefaultEnv, [DefaultEnv EXCEPT !.data = "eof"]}
MenuRest == {{}, {POLLIN}, {POLLOUT}}
InitRest == InitWith({Config("", "")})
NextRest == NextWith({1}, EnvsRest, Batches(LinesRest, MoreRest), MenuRest, IDLE_TIMEOUT \div 2)
SpecRest == InitRest /\ [][NextRest]_vars

\* the session is in COMMAND state
InCommand(ss) == ss.live /\ ss.m_state = COMMAND

\* the command handled in this step was a RETR, STOR or APPE that has
\* started its transfer
TransferStarted(ss) ==
    /\ ss.command \in XferFileVerbs
    /\ ss.stateBefore = COMMAND
    /\ ss.m_state # COMMAND

C5_RestartConsumed ==
    \A s \in SessionIds :
        InCommand(sessions[s]) /\ sessions[s].xferDone
            => sessions[s].m_restartPosition = 0


----------------------------------------------------------------------------
(* Specification for the staged rename: one client of a server without     *)
(* credentials sends RNFR, RNTO and other command lines.                   *)

LinesRename == {L("RNFR", P(TRUE, <<"a">>)), L("RNFR", P(TRUE, <<"b">>)),
                L("RNTO", P(TRUE, <<"b">>)), L("RNTO", P(TRUE, <<"a">>)),
                L("NOOP", W("")), L("FOO", W("")), L("TYPE", W("I")),
                L("STOR", P(TRUE, <<"b">>))}
MoreRename == {L("RNTO", P(TRUE, <<"b">>)), L("NOOP", W(""))}
EnvsRename == {[DefaultEnv EXCEPT !.write = w] : w \in {"all", "err"}}
MenuRename == {{}, {POLLIN}, {POLLOUT}}
InitRename == InitWith({Config("", "")})
NextRename == NextWith({1}, EnvsRename, Batches(LinesRename, MoreRename), MenuRename,
                       IDLE_TIMEOUT \div 2)
SpecRename == InitRename /\ [][NextRename]_vars

\* C6: the staged rename source is non-empty only while the command line
\* dispatched last is a successful RNFR, and an RNTO that does not follow
\* a successful RNFR immediately is answered with 503
C6_RenameOnlyAfterRnfr ==
    [][\A s \in SessionIds :
          /\ ~sessions'[s].m_rename.empty => sessions'[s].afterRnfr
          /\ sessions'[s].command = "RNTO" /\ sessions'[s].openBefore
             /\ ~sessions[s].afterRnfr
                => sessions'[s].log = <<"503 Bad sequence of commands">>]_vars

----------------------------------------------------------------------------
(* Specification for the login: one client of a server whose user is "u"   *)
(* and whose password is "p" sends USER and PASS in every order; nothing   *)
(* changes the configuration.                                              *)

LinesLogin == {L("USER", W("u")), L("USER", W("x")), L("USER", W("")),
               L("PASS", W("p")), L("PASS", W("x")), L("PASS", W("")),
               L("NOOP", W("")), L("PWD", W("")), L("TYPE", W("I"))}
MoreLogin == {L("PASS", W("p")), L("USER", W("u"))}
EnvsLogin == {[DefaultEnv EXCEPT !.write = w] : w \in {"all", "err"}}
MenuLogin == {{}, {POLLIN}, {POLLOUT}}
InitLogin == InitWith({Config("u", "p")})
NextLogin == NextWith({1}, EnvsLogin, Batches(LinesLogin, MoreLogin), MenuLogin,
                      IDLE_TIMEOUT \div 2)
SpecLogin == InitLogin /\ [][NextLogin]_vars

\* C7: with a user and a password configured and left unchanged, a session
\* is authorized only when it has been sent a USER naming the configured
\* user and then, with no other USER between, a PASS giving the configured
\* password
C7_AuthorizedOnlyByUserThenPass ==
    /\ config = Config("u", "p")
    /\ \A s \in SessionIds :
          authorized(sessions[s]) => sessions[s].loginSeen

\* a PASS giving the configured password has just made the session
\* authorized
C7_Witness ==
    \E s \in SessionIds :
        /\ sessions[s].command = "PASS"
        /\ sessions[s].log = <<"230 OK">>
        /\ authorized(sessions[s])
        /\ sessions[s].loginSeen

----------------------------------------------------------------------------
(* Specification for the credentials changed at run time: one client of    *)
(* a server started without credentials or with user "u" and password "p"  *)
(* logs in and sends SITE USER and SITE PASS.                              *)

LinesSite == {L("USER", W("u")), L("PASS", W("p")), L("PASS", W("x")),
              L("SITE", W2("USER", "u")), L("SITE", W2("PASS", "p")),
              L("SITE", W2("USER", "")), L("NOOP", W(""))}
MoreSite == {L("PASS", W("p"))}
EnvsSite == {[DefaultEnv EXCEPT !.write = w] : w \in {"all", "err"}}
MenuSite == {{}, {POLLIN}, {POLLOUT}}
InitSite == InitWith({Config("", ""), Config("u", "p")})
NextSite == NextWith({1}, EnvsSite, Batches(LinesSite, MoreSite), MenuSite,
                     IDLE_TIMEOUT \div 2)
SpecSite == InitSite /\ [][NextSite]_vars

\* C8: authorizedUser implies that the configured user is empty or the
\* session's last USER matched, and authorizedPass implies that the
\* configured password is empty or the session's last PASS matched,
\* whatever SITE USER and SITE PASS have changed
C8_FlagsFollowConfig ==
    \A s \in SessionIds :
        sessions[s].live =>
            /\ sessions[s].m_authorizedUser
                  => config.user = "" \/ sessions[s].userMatched
            /\ sessions[s].m_authorizedPass
                  => config.pass = "" \/ sessions[s].passMatched

----------------------------------------------------------------------------
(* Specification for the commands that need a login: one client of a       *)
(* server whose user is "u" and whose password is "p" sends them without   *)
(* ever giving the password.                                               *)

LinesUnauth ==
    {L("USER", W("u")), L("USER", W("x")), L("PASS", W("x")),
     L("APPE", P(TRUE, <<"a">>)), L("CDUP", W("")), L("XCUP", W("")),
     L("CWD", P(TRUE, <<"d">>)), L("XCWD", P(TRUE, <<"d">>)),
     L("DELE", P(TRUE, <<"a">>)), L("LIST", W("")), L("MDTM", P(TRUE, <<"a">>)),
     L("MKD", P(TRUE, <<"b">>)), L("XMKD", P(TRUE, <<"b">>)),
     L("MLSD", W("")), L("MLST", W("")), L("NLST", W("*")),
     L("PASV", W("")), L("PORT", W("h1,h2,h3,h4,p1,p2")),
     L("PWD", W("")), L("XPWD", W("")), L("REST", W("1")),
     L("RETR", P(TRUE, <<"a">>)), L("RMD", P(TRUE, <<"d">>)),
     L("XRMD", P(TRUE, <<"d">>)), L("RNFR", P(TRUE, <<"a">>)),
     L("RNTO", P(TRUE, <<"b">>)), L("SIZE", P(TRUE, <<"a">>)),
     L("STOR", P(TRUE, <<"b">>)), L("STAT", P(TRUE, <<"a">>)),
     L("SITE", W2("USER", "x")), L("SITE", W2("PASS", "x")),
     L("SITE", W2("PORT", "1")), L("SITE", W2("DEFLATE", "1")),
     L("SITE", W2("HOST", "h")), L("SITE", W("SAVE")), L("SITE", W("FOO"))}
MoreUnauth == {L("PASV", W(""))}
EnvsUnauth == {[DefaultEnv EXCEPT !.write = w] : w \in {"all", "err"}}
MenuUnauth == {{}, {POLLIN}, {POLLOUT}}
InitUnauth == InitWith({Config("u", "p")})
NextUnauth == NextWith({1}, EnvsUnauth, Batches(LinesUnauth, MoreUnauth), MenuUnauth,
                       IDLE_TIMEOUT \div 2)
SpecUnauth == InitUnauth /\ [][NextUnauth]_vars

\* the verbs that need a login whatever their argument
LoginVerbs ==
    {"APPE", "CDUP", "XCUP", "CWD", "XCWD", "DELE", "LIST", "MDTM", "MKD", "XMKD",
     "MLSD", "MLST", "NLST", "PASV", "PORT", "PWD", "XPWD", "REST", "RETR", "RMD",
     "XRMD", "RNFR", "RNTO", "SIZE", "STOR"}

\* the command handled in this step is one that needs a login
NeedsLogin(ss) ==
    /\ ss.stateBefore = COMMAND
    /\ \/ ss.command \in LoginVerbs
       \/ ss.command = "STAT" /\ ss.args # ""
       \/ ss.command = "SITE" /\ ss.args # "HELP"

\* C9: a command that needs a login, sent to a session that is not
\* authorized, is answered with 530, changes neither the filesystem nor
\* the working directory, creates no socket and leaves the session in
\* COMMAND state
C9_NotLoggedIn ==
    [][\A s \in SessionIds :
          NeedsLogin(sessions'[s]) /\ ~authorized(sessions[s])
             => /\ sessions'[s].openBefore
                    => sessions'[s].log = <<"530 Not logged in">>
                /\ fs' = fs
                /\ config' = config
                /\ sessions'[s].m_cwd = sessions[s].m_cwd
                /\ sessions'[s].m_pasvSocket = sessions[s].m_pasvSocket
                /\ sessions'[s].m_dataSocket = sessions[s].m_dataSocket
                /\ sessions'[s].fresh \subseteq sessions[s].fresh
                /\ sessions'[s].m_state = COMMAND]_vars

\* a PASV sent after the user name alone has been answered with 530
C9_Witness ==
    \E s \in SessionIds :
        /\ NeedsLogin(sessions[s])
        /\ sessions[s].command = "PASV"
        /\ sessions[s].m_authorizedUser
        /\ ~authorized(sessions[s])
        /\ sessions[s].log = <<"530 Not logged in">>
        /\ ~sessions[s].m_pasvSocket

----------------------------------------------------------------------------
(* Specification for the idle timeout: two clients, one of which may keep  *)
(* sending NOOP while the clock runs past the timeout of the other.        *)

LinesIdle == {L("NOOP", W(""))}
MoreIdle == {L("NOOP", W(""))}
EnvsIdle == {DefaultEnv}
MenuIdle == {{}, {POLLIN}}
InitIdle == InitWith({Config("", "")})
NextIdle == NextWith({1, 2}, EnvsIdle, Batches(LinesIdle, MoreIdle), MenuIdle, MaxNow)
SpecIdle == InitIdle /\ [][NextIdle]_vars

\* the reactor is at the idle check of session s, which had no event on a
\* socket of its own in this tick and whose timestamp is IDLE_TIMEOUT old
IdleAtSweep(s) ==
    /\ reactor.phase = "session" /\ reactor.step = "sweep" /\ reactor.cur = s
    /\ \A i \in ownEntries(reactor.pollInfo, s) : reactor.pollInfo[i].revents = {}
    /\ now - sessions[s].m_timestamp >= IDLE_TIMEOUT

\* C10: a session that had no event on its own sockets in a tick and whose
\* timestamp is at least IDLE_TIMEOUT old has its command, pasv and data
\* sockets closed in that tick, whatever events other sessions had
C10_IdleSessionClosed ==
    [][\A s \in SessionIds :
          IdleAtSweep(s)
             => /\ ~sessions'[s].m_commandSocket
                /\ ~sessions'[s].m_pasvSocket
                /\ sessions'[s].m_dataSocket = "null"]_vars

----------------------------------------------------------------------------
(* Errors on the command channel, checked under SpecAbort *)

\* the step from the current state to the next handles an I/O error or the
\* end of the stream on the open command socket of session s: a read or a
\* flush of readCommand / writeResponse that fails (the buffer not being
\* full), POLLERR or POLLHUP on the command socket, or a reply whose write
\* fails although the response buffer was empty
CommandChannelError(s) ==
    /\ reactor.phase = "session" /\ reactor.cur = s
    /\ sessions[s].m_commandSocket
    /\ \/ /\ reactor.step = "command"
          /\ Len(sessions[s].m_commandBuffer) < COMMAND_BUFFERSIZE
          /\ ~sessions'[s].m_commandSocket
       \/ /\ reactor.step = "data"
          /\ reactor'.cmdMatch = FALSE
          /\ reactor.cmdMatch
          /\ reactor.pollInfo[reactor.idx].revents \cap {POLLERR, POLLHUP} # {}
       \/ /\ reactor.step = "loop"
          /\ sessions[s].m_responseBuffer = << >>
          /\ sessions'[s].failed

\* C11: an I/O error or the end of the stream on the command channel leaves
\* the session without any open socket: the command socket, the pasv socket
\* and the data socket are all closed once the error is handled
C11_CommandErrorClosesAll ==
    [][\A s \in SessionIds :
          CommandChannelError(s)
             => /\ ~sessions'[s].m_commandSocket
                /\ ~sessions'[s].m_pasvSocket
                /\ sessions'[s].m_dataSocket = "null"]_vars

\* C12: dead () reports a session dead only when its command socket, its
\* pasv socket and its data socket are closed and its queue of sockets
\* pending close is empty
C12_DeadOnlyWhenDrained ==
    \A s \in SessionIds :
        sessions[s].live /\ dead(sessions[s])
            => /\ ~sessions[s].m_commandSocket
               /\ ~sessions[s].m_pasvSocket
               /\ sessions[s].m_dataSocket = "null"
               /\ sessions[s].m_pendingCloseSocket = 0

----------------------------------------------------------------------------
(* Specification for the data channel: one client of a server without      *)
(* credentials starts list, glob, retrieve and store transfers over PASV;  *)
(* reads and writes on the data socket block or fail, and the writes on    *)
(* the command socket fail.                                                *)

LinesData == {L("PASV", W("")),
              L("RETR", P(TRUE, <<"a">>)), L("STOR", P(TRUE, <<"b">>)),
              L("LIST", W("")), L("NLST", W("*"))}
EnvsData ==
    {[DefaultEnv EXCEPT !.data = x] : x \in {"ok", "block", "err"}}
    \cup {[DefaultEnv EXCEPT !.write = "err"]}
MenuData == {{}, {POLLIN}, {POLLOUT}, {POLLHUP}}
InitData == InitWith({Config("", "")})
NextData == NextWith({1}, EnvsData, Batches(LinesData, {}), MenuData, IDLE_TIMEOUT \div 2)
SpecData == InitData /\ [][NextData]_vars

\* C13: a failed write to the data socket, a failed read from it, POLLERR
\* or POLLHUP on it, handled while the command socket is open, is answered
\* with a 426 reply, returns the session to COMMAND state and leaves the
\* command socket open (unless the write of that reply fails in its turn)
C13_DataError426 ==
    \A s \in SessionIds :
        LET ss == sessions[s] IN
        ss.dataError # "" /\ ss.openBefore /\ ~ss.failed
            => /\ \E i \in DOMAIN ss.log : ss.log[i] \in
                      {"426 Connection broken during transfer",
                       "426 Data connection failed"}
               /\ ss.m_state = COMMAND
               /\ ss.m_commandSocket

\* C14: a read or a write that fails with EWOULDBLOCK on the command socket
\* (readCommand, writeResponse) or on the data socket (the transfer pumps)
\* closes no socket, sends no reply and leaves the state of the session as
\* it was; a reply whose write fails with EWOULDBLOCK stays queued
C14_WouldBlockIsNoError ==
    [][\A s \in SessionIds :
          /\ sessions'[s].wouldBlock \in {"read", "flush", "data"}
                => /\ sessions'[s].m_commandSocket = sessions[s].m_commandSocket
                   /\ sessions'[s].m_pasvSocket = sessions[s].m_pasvSocket
                   /\ sessions'[s].m_dataSocket = sessions[s].m_dataSocket
                   /\ sessions'[s].m_state = sessions[s].m_state
                   /\ sessions'[s].log = << >>
          /\ sessions'[s].wouldBlock = "reply"
                => sessions'[s].m_responseBuffer # << >>]_vars

----------------------------------------------------------------------------
(* Specification for the transfers over the command socket: one client of  *)
(* a server without credentials sends MLST and STAT with an argument; the  *)
(* command socket accepts a write, or blocks, or fails.                    *)

LinesInline == {L("MLST", P(TRUE, <<"a">>)), L("STAT", P(TRUE, <<"a">>)),
                L("STAT", P(TRUE, <<"d">>)), L("NOOP", W("")), L("TYPE", W("I"))}
MoreInline == {L("NOOP", W(""))}
EnvsInline ==
    {[DefaultEnv EXCEPT !.write = w] : w \in {"all", "block", "err"}}
    \cup {[DefaultEnv EXCEPT !.data = x] : x \in {"block", "err"}}
    \cup {[DefaultEnv EXCEPT !.short = TRUE]}
MenuInline == {{}, {POLLIN}, {POLLOUT}, {POLLHUP}}
InitInline == InitWith({Config("", "")})
NextInline == NextWith({1}, EnvsInline, Batches(LinesInline, MoreInline), MenuInline,
                       IDLE_TIMEOUT \div 2)
SpecInline == InitInline /\ [][NextInline]_vars

IsPrefix(a, b) == Len(a) <= Len(b) /\ a = SubSeq(b, 1, Len(a))
IsSuffix(a, b) == Len(a) <= Len(b) /\ a = SubSeq(b, Len(b) - Len(a) + 1, Len(b))

\* the reactor is in the loop body of session s
InBody(s) == reactor.phase = "session" /\ reactor.cur = s

\* C15: the lines received are kept behind the lines that wait, the line
\* dispatched is always the oldest line that waits, the replies of a step
\* are queued behind the replies that wait, in the order they were
\* produced, and what a step writes to the command socket begins with the
\* replies that waited
C15_CommandsAndRepliesInOrder ==
    [][\A s \in SessionIds :
          LET ss == sessions[s]
              tt == sessions'[s]
          IN
          /\ (InBody(s) /\ reactor.step = "command" /\ ~ss.m_urgent
                /\ POLLPRI \notin reactor.pollInfo[reactor.idx].revents)
                => IsPrefix(ss.m_commandBuffer, tt.m_commandBuffer)
          /\ (InBody(s) /\ reactor.step = "loop" /\ ss.m_commandBuffer # << >>)
                => /\ tt.command = Head(ss.m_commandBuffer).verb
                   /\ tt.m_commandBuffer = Tail(ss.m_commandBuffer)
          /\ (InBody(s) /\ ~tt.failed)
                => IsSuffix(tt.m_responseBuffer, ss.m_responseBuffer \o tt.log)
          /\ (InBody(s) /\ tt.wrote # << >>)
                => IsPrefix(ss.m_responseBuffer, tt.wrote)]_vars

\* the step from the current state to the next ends the transfer of
\* session s that runs over its open command socket: it is the data part
\* of the loop body, without POLLERR or POLLHUP on the socket and without
\* a reply that cannot be queued or written
InlineTransferEnds(s) ==
    /\ InBody(s) /\ reactor.step = "data"
    /\ reactor.pollInfo[reactor.idx].revents \cap {POLLERR, POLLHUP} = {}
    /\ sessions[s].m_commandSocket
    /\ sessions[s].m_dataSocket = "command"
    /\ sessions'[s].m_dataSocket = "null"
    /\ ~sessions'[s].failed

C20_InlineReplyInOrder ==
    [][\A s \in SessionIds :
          LET ss == sessions[s]
              tt == sessions'[s]
          IN
          InBody(s) =>
             /\ \A i \in DOMAIN tt.wrote :
                   tt.wrote[i] = "entry" =>
                      /\ "250-Status" \notin Range(ss.m_responseBuffer)
                      /\ \A j \in DOMAIN tt.wrote :
                            /\ tt.wrote[j] = "250-Status" => j < i
                            /\ tt.wrote[j] = "250 OK" => i < j
             /\ (tt.command = "" /\ "250 OK" \in Range(tt.log))
                   => tt.m_xferBuffer = 0]_vars

----------------------------------------------------------------------------
(* Specification for the working directory: one client of a server without *)
(* credentials sends CWD, XCWD, CDUP and XCUP; the arguments have `.' and   *)
(* `..' components, doubled and trailing slashes, and name a directory, a  *)
(* file or nothing.                                                        *)

LinesCwd ==
    {L("CWD", P(TRUE, <<"d", ".">>)), L("CWD", P(FALSE, <<"d", "", "">>)),
     L("CWD", P(FALSE, <<".", "d", "..", "d">>)), L("CWD", W("..")),
     L("CWD", P(TRUE, <<"d", "..">>)), L("CWD", P(FALSE, <<"..", "..", "d", "">>)),
     L("CWD", P(TRUE, <<"a">>)), L("CWD", P(TRUE, <<"b", ".">>)),
     L("CWD", P(TRUE, <<"", "">>)), L("CWD", W("")),
     L("XCWD", P(FALSE, <<"d", "">>)), L("CDUP", W("")), L("XCUP", W("")),
     L("NOOP", W(""))}
MoreCwd == {L("CDUP", W("")), L("CWD", P(FALSE, <<".", "d", "">>))}
EnvsCwd == {[DefaultEnv EXCEPT !.write = w] : w \in {"all", "err"}}
MenuCwd == {{}, {POLLIN}, {POLLOUT}}
InitCwd == InitWith({Config("", "")})
NextCwd == NextWith({1}, EnvsCwd, Batches(LinesCwd, MoreCwd), MenuCwd, IDLE_TIMEOUT \div 2)
SpecCwd == InitCwd /\ [][NextCwd]_vars

\* a path without `.', `..' and empty components: as a string it begins
\* with one slash, has no doubled slash, and no trailing slash but in "/"
Canonical(path) == \A i \in DOMAIN path : path[i] \notin {"", ".", ".."}

\* C16: after every CWD, XCWD, CDUP and XCUP, successful or failed, the
\* working directory is canonical, and CDUP at the root leaves it the root
C16_CwdCanonical ==
    [][\A s \in SessionIds :
          /\ Canonical(sessions'[s].m_cwd)
          /\ (sessions'[s].command \in {"CDUP", "XCUP"} /\ sessions[s].m_cwd = Root)
                => sessions'[s].m_cwd = Root]_vars

\* a CWD has moved the session into /d; every argument sent that leads
\* there has a `.' or `..' component, a doubled or a trailing slash
C16_Witness ==
    \E s \in SessionIds :
        /\ sessions[s].command \in {"CWD", "XCWD"}
        /\ sessions[s].log = <<"200 OK">>
        /\ sessions[s].m_cwd = <<"d">>

----------------------------------------------------------------------------
(* Specification for the set-up of the data connection: one client of a    *)
(* server without credentials sends the transfer commands with and without *)
(* a PASV or PORT before them, for targets that exist and that do not.     *)

LinesArm ==
    {L("PASV", W("")), L("PORT", W("h1,h2,h3,h4,p1,p2")),
     L("RETR", P(TRUE, <<"a">>)), L("RETR", P(TRUE, <<"b">>)),
     L("STOR", P(TRUE, <<"d">>)), L("LIST", W("")),
     L("MLSD", P(TRUE, <<"a">>)), L("NLST", W("*"))}
EnvsArm ==
    {[DefaultEnv EXCEPT !.connect = x] : x \in {"done", "fail"}}
        \cup {[DefaultEnv EXCEPT !.write = "err"]}
MenuArm == {{}, {POLLIN}, {POLLOUT}}
InitArm == InitWith({Config("", "")})
NextArm == NextWith({1}, EnvsArm, Batches(LinesArm, {}), MenuArm, IDLE_TIMEOUT \div 2)
SpecArm == InitArm /\ [][NextArm]_vars

\* the commands that need a data connection of their own
ArmVerbs == {"RETR", "STOR", "APPE", "LIST", "MLSD", "NLST"}

\* the step from the current state to the next dispatches such a command
\* of session s, authorized and in COMMAND state
ArmDispatched(s) ==
    /\ InBody(s) /\ reactor.step = "loop"
    /\ sessions[s].m_commandBuffer # << >>
    /\ Head(sessions[s].m_commandBuffer).verb \in ArmVerbs
    /\ sessions[s].m_state = COMMAND
    /\ authorized(sessions[s])

\* the target of the command passes the checks made before the data
\* connection is looked at: the file of a RETR exists, the file of a STOR
\* or APPE can be opened for writing, the target of a listing exists and
\* that of an MLSD is a directory
TargetOk(ss, line) ==
    LET r == buildResolvedPath(fs, ss.m_cwd, pathOf(line.args))
        k == fsKind(fs, r.path)
    IN CASE line.verb = "RETR" -> r.ok /\ k # None
         [] line.verb \in {"STOR", "APPE"} -> r.ok /\ leaf(fs, r.path) # "" /\ k # Dir
         [] line.args.text \in {"", "*"} -> TRUE
         [] line.verb = "MLSD" -> r.ok /\ k = Dir
         [] OTHER -> r.ok /\ k # None

\* the replies of the checks made before the data connection is looked at
EarlyErrors == {"450 %s", "501 %s", "550 %s", "553 %s", "550 zlib error"}

\* C17 as stated: the command leaves COMMAND state only if a PASV or PORT
\* is pending, and without one it is answered with 503, the session
\* staying in COMMAND state without a data socket
C17_Always503 ==
    [][\A s \in SessionIds :
          LET ss == sessions[s]
              tt == sessions'[s]
          IN ArmDispatched(s) =>
                /\ tt.m_state # COMMAND => ss.m_pasv \/ ss.m_port
                /\ ~(ss.m_pasv \/ ss.m_port)
                      => /\ tt.m_state = COMMAND
                         /\ tt.m_dataSocket = "null"
                         /\ ss.m_commandSocket
                               => tt.log = <<"503 Bad sequence of commands">>]_vars

\* C17: the command leaves COMMAND state only if a PASV or PORT is pending;
\* without one the session stays in COMMAND state without a data socket,
\* and the reply is 503 when the target passes the earlier checks and the
\* error of the failed check otherwise
C17_503AfterTargetChecks ==
    [][\A s \in SessionIds :
          LET ss == sessions[s]
              tt == sessions'[s]
          IN ArmDispatched(s) =>
                /\ tt.m_state # COMMAND => ss.m_pasv \/ ss.m_port
                /\ ~(ss.m_pasv \/ ss.m_port)
                      => /\ tt.m_state = COMMAND
                         /\ tt.m_dataSocket = "null"
                         /\ ss.m_commandSocket
                               => IF TargetOk(ss, Head(ss.m_commandBuffer))
                                  THEN tt.log = <<"503 Bad sequence of commands">>
                                  ELSE Len(tt.log) = 1 /\ tt.log[1] \in EarlyErrors]_vars

\* a RETR of a file that exists, sent without PASV or PORT, has been
\* answered with 503
C17_Witness ==
    \E s \in SessionIds :
        /\ sessions[s].command = "RETR"
        /\ sessions[s].stateBefore = COMMAND
        /\ sessions[s].log = <<"503 Bad sequence of commands">>
        /\ sessions[s].m_state = COMMAND
        /\ sessions[s].m_dataSocket = "null"
        /\ sessions[s].m_commandSocket

----------------------------------------------------------------------------
(* Specification for the end of a transfer: one client of a server without *)
(* credentials retrieves, stores and lists in stream mode and in MODE Z,   *)
(* over a data socket that moves all or one unit at a time and that the    *)
(* client closes.                                                          *)

LinesFinal ==
    {L("MODE", W("Z")), L("PASV", W("")),
     L("RETR", P(TRUE, <<"a">>)), L("STOR", P(TRUE, <<"b">>)),
     L("LIST", W("")), L("NLST", W("*"))}
EnvsFinal ==
    {DefaultEnv, [DefaultEnv EXCEPT !.data = "eof"],
     [DefaultEnv EXCEPT !.short = TRUE], [DefaultEnv EXCEPT !.last = TRUE]}
MenuFinal == {{}, {POLLIN}, {POLLOUT}}
InitFinal == InitWith({Config("", "")})
NextFinal == NextWith({1}, EnvsFinal, Batches(LinesFinal, {}), MenuFinal, IDLE_TIMEOUT \div 2)
SpecFinal == InitFinal /\ [][NextFinal]_vars

\* the step from the current state to the next is a pump of the transfer of
\* session s that sends the final status
FinalStatus(s) ==
    /\ InBody(s)
    /\ sessions[s].m_state = DATA_TRANSFER
    /\ sessions'[s].command = ""
    /\ {"226 OK", "250 OK"} \cap Range(sessions'[s].log) # {}

\* C18: the final status of a transfer is sent only when the source is at
\* its end, m_xferBuffer and m_zStreamBuffer are empty and, under MODE Z,
\* the compressor has been finished
C18_FinalStatusWhenDrained ==
    [][\A s \in SessionIds :
          LET tt == sessions'[s]
          IN FinalStatus(s) =>
                /\ tt.m_xferBuffer = 0
                /\ tt.m_zStreamBuffer = 0
                /\ IF tt.m_transfer = "globTransfer" THEN tt.m_glob = << >> ELSE tt.m_eof
                /\ tt.m_deflate => tt.m_zFlushed]_vars

----------------------------------------------------------------------------
(* Specification for the end of a session: one client of a server without  *)
(* credentials sends QUIT, alone and with a line behind it in the same     *)
(* read, and sends commands while a transfer is under way.                 *)

LinesQuit ==
    {L("QUIT", W("")), L("PASV", W("")), L("RETR", P(TRUE, <<"a">>)),
     L("TYPE", W("I")), L("NOOP", W(""))}
MoreQuit == {L("DELE", P(TRUE, <<"a">>)), L("PASV", W("")), L("NOOP", W(""))}
EnvsQuit == {DefaultEnv, [DefaultEnv EXCEPT !.data = "block"]}
MenuQuit == {{}, {POLLIN}, {POLLOUT}}
InitQuit == InitWith({Config("", "")})
NextQuit == NextWith({1}, EnvsQuit, Batches(LinesQuit, MoreQuit), MenuQuit, IDLE_TIMEOUT \div 2)
SpecQuit == InitQuit /\ [][NextQuit]_vars

\* the step from the current state to the next hands the oldest line of
\* session s to its handler
Dispatches(s) ==
    /\ InBody(s) /\ reactor.step = "loop"
    /\ sessions[s].m_commandBuffer # << >>

\* the step that led to the current state ended the session: it handled a
\* QUIT, or closed the command socket with 503 during a transfer
SessionEnded(ss) ==
    \/ ss.command = "QUIT"
    \/ "503 Invalid command during transfer" \in Range(ss.log)

\* C21: a QUIT queues 221 and closes the command socket, a command refused
\* with 503 during a transfer closes the command socket, and no line that
\* follows either of them is dispatched
C21_QuitIsTerminal ==
    [][\A s \in SessionIds :
          LET ss == sessions[s]
              tt == sessions'[s]
          IN /\ Dispatches(s) /\ reactor'.phase # "crashed" /\ SessionEnded(tt)
                  => ~tt.m_commandSocket
             /\ Dispatches(s) /\ reactor'.phase # "crashed" /\ tt.command = "QUIT"
                   /\ ss.m_commandSocket
                  => "221 Disconnecting" \in Range(tt.log)
             /\ SessionEnded(ss) => ~Dispatches(s)]_vars

----------------------------------------------------------------------------
(* Specification for urgent mode: one client of a server without           *)
(* credentials sends urgent data (POLLPRI), lines while the session is in  *)
(* urgent mode, and the Telnet data mark with lines behind it.  The lines  *)
(* sent behind a mark are not sent otherwise, so that they tell the two    *)
(* kinds of lines apart.                                                   *)

LinesUrgent == {L("DELE", P(TRUE, <<"a">>)), L("NOOP", W("")), L("MKD", P(TRUE, <<"b">>))}
MarkedUrgent == {L("SYST", W("")), L("RMD", P(TRUE, <<"d">>))}
ReadsUrgent ==
    Batches(LinesUrgent, {})
        \cup {Marked(<< >>)} \cup {Marked(<<l>>) : l \in MarkedUrgent}
        \cup {Marked(<<l, m>>) : l \in MarkedUrgent, m \in MarkedUrgent}
EnvsUrgent == {DefaultEnv}
MenuUrgent == {{}, {POLLIN}, {POLLPRI}, {POLLOUT}}
InitUrgent == InitWith({Config("", "")})
NextUrgent == NextWith({1}, EnvsUrgent, ReadsUrgent, MenuUrgent, IDLE_TIMEOUT \div 2)
SpecUrgent == InitUrgent /\ [][NextUrgent]_vars

\* C22: no line is dispatched while m_urgent is set; m_urgent is cleared
\* only by a read of in-band data that holds the data mark, which leaves in
\* the command buffer the lines behind the mark and nothing else; these
\* lines are dispatched next
C22_UrgentDiscardsToMark ==
    [][\A s \in SessionIds :
          LET ss == sessions[s]
              tt == sessions'[s]
          IN /\ Dispatches(s) => ~ss.m_urgent
             /\ InBody(s) /\ tt.m_urgent => tt.command = ""
             /\ InBody(s) /\ ss.m_urgent /\ ~tt.m_urgent
                  => /\ reactor.step = "command"
                     /\ POLLIN \in reactor.pollInfo[reactor.idx].revents
                     /\ Range(tt.m_commandBuffer) \subseteq MarkedUrgent
                     /\ tt.dropped = Len(ss.m_commandBuffer)
                     /\ tt.m_commandBuffer # << >> => reactor'.step = "loop"]_vars

\* lines received in urgent mode have been discarded at the data mark,
\* and the lines behind the mark wait to be dispatched
C22_Witness ==
    \E s \in SessionIds :
        /\ sessions[s].dropped >= 1
        /\ ~sessions[s].m_urgent
        /\ sessions[s].m_commandBuffer # << >>
        /\ Range(sessions[s].m_commandBuffer) \subseteq MarkedUrgent
        /\ reactor.step = "loop"

----------------------------------------------------------------------------
(* Specification for the argument of PORT: one client of a server without  *)
(* credentials sends PORT with the address 1,2,3,4 and every port part of  *)
(* up to three characters, with port parts that are longer, and with a     *)
(* malformed address.                                                      *)

PortChars == {"0", "2", "5", "6", ",", "."}
PortTails ==
    UNION {[1 .. n -> PortChars] : n \in 0 .. 3}
        \cup { <<"2", "5", "5", ",", "2", "5", "5">>,
               <<"2", "5", "6", ",", "2">>, <<"2", ",", "2", "5", "6">>,
               <<"2", "5", "5", "0", ",", "2">>, <<"0", "0", "2", ",", "0", "5">>,
               <<"0", ".", "0", ",", "2">>, <<"2", ",", "5", ",", "6">>,
               <<"4", "2", "9", "4", "9", "6", "7", "2", "9", "6", ",", "2">>,
               <<"2", ",", "4", "2", "9", "4", "9", "6", "7", "2", "9", "7">> }
PortArgs ==
    {<<"1", ",", "2", ",", "3", ",", "4", ",">> \o t : t \in PortTails}
        \cup { <<"1", ",", "2", ",", "3", ",", "x", ",", "5", ",", "6">>,
               <<"1", ",", ",", "3", ",", "4", ",", "5", ",", "6">>,
               <<"1", ",", "2", ",", "3", ",", "5", ",", "6">> }
LinesPort ==
    {L("PORT", A(a)) : a \in PortArgs} \cup {L("RETR", P(TRUE, <<"a">>))}
EnvsPort == {DefaultEnv}
MenuPort == {{}, {POLLIN}, {POLLOUT}}
InitPort == InitWith({Config("", "")})
NextPort == NextWith({1}, EnvsPort, Batches(LinesPort, {}), MenuPort, IDLE_TIMEOUT \div 2)
SpecPort == InitPort /\ [][NextPort]_vars

\* the fields of an argument, the commas taken as separators
RECURSIVE commaFields(_)
commaFields(chars) ==
    IF \A i \in DOMAIN chars : chars[i] # "," THEN <<chars>>
    ELSE LET d == CHOOSE i \in DOMAIN chars :
                      chars[i] = "," /\ \A j \in 1 .. i - 1 : chars[j] # ","
         IN <<SubSeq(chars, 1, d - 1)>> \o commaFields(SubSeq(chars, d + 1, Len(chars)))

\* a string without its leading zeros
RECURSIVE significant(_)
significant(f) == IF f # << >> /\ Head(f) = "0" THEN significant(Tail(f)) ELSE f

\* the field is a decimal number of value at most 255
DecimalAtMost255(f) ==
    LET g == significant(f) IN
    /\ f # << >>
    /\ \A i \in DOMAIN f : isdigit(f[i])
    /\ Len(g) <= 3
    /\ Len(g) = 3 => digitValue(g[1]) * 100 + digitValue(g[2]) * 10 + digitValue(g[3]) <= 255

\* the argument has exactly five commas, and p1 and p2 are decimal numbers
\* of value at most 255
PortFieldsOk(chars) ==
    LET f == commaFields(chars) IN
    Len(f) = 6 /\ DecimalAtMost255(f[5]) /\ DecimalAtMost255(f[6])

\* the step from the current state to the next handles a PORT of session s,
\* authorized and in COMMAND state, whose argument is given by characters
PortHandled(s) ==
    /\ Dispatches(s)
    /\ Head(sessions[s].m_commandBuffer).verb = "PORT"
    /\ Head(sessions[s].m_commandBuffer).args.text = "port"
    /\ sessions[s].m_state = COMMAND
    /\ authorized(sessions[s])
    /\ sessions[s].m_commandSocket
    /\ reactor'.phase # "crashed"

\* C23: PORT replies 200 and sets the port flag only when its argument has
\* exactly five commas and p1 and p2 are decimal numbers of value at most
\* 255; every other argument is answered with 501, the port flag unset
C23_PortArgumentChecked ==
    [][\A s \in SessionIds :
          LET chars == Head(sessions[s].m_commandBuffer).args.comps
              tt == sessions'[s]
          IN PortHandled(s) =>
                /\ tt.m_port \/ tt.log = <<"200 OK">> => PortFieldsOk(chars)
                /\ ~PortFieldsOk(chars) => tt.log = <<"501 %s">> /\ ~tt.m_port]_vars

----------------------------------------------------------------------------
(* Compressed bodies, on the runs of SpecFinal *)

\* the transfer that session record ss is in, or was in last, sends the
\* body of a LIST, MLSD, NLST or RETR
SendsBody(ss) ==
    \/ ss.m_transfer \in {"retrieveTransfer", "globTransfer"}
    \/ ss.m_transfer = "listTransfer" /\ ss.m_xferDirMode \in {"LIST", "MLSD", "NLST"}

\* C24: under MODE Z a pump of a LIST, MLSD, NLST or RETR writes to the data
\* socket nothing but output of the compressor, and it sends 226 only when
\* the compressor has been finished
C24_BodyIsDeflated ==
    \A s \in SessionIds :
        LET ss == sessions[s] IN
        ss.live /\ ss.m_deflate /\ SendsBody(ss) /\ ss.command = ""
            => /\ ~ss.rawSent
               /\ "226 OK" \in Range(ss.log) => ss.m_zFlushed

----------------------------------------------------------------------------
(* Specification for the lines of an MLSD: one client of a server without  *)
(* credentials removes the directory /d, which leaves the file /a alone in *)
(* the root, enables and disables the type fact, and lists the root.       *)

LinesMlsd ==
    {L("RMD", P(TRUE, <<"d">>)), L("OPTS", W2("MLST", "Type;")),
     L("OPTS", W2("MLST", "Size;")), L("PASV", W("")), L("MLSD", W("")),
     L("MLSD", P(TRUE, << >>))}
EnvsMlsd == {DefaultEnv}
MenuMlsd == {{}, {POLLIN}, {POLLOUT}}
InitMlsd == InitWith({Config("", "")})
NextMlsd == NextWith({1}, EnvsMlsd, Batches(LinesMlsd, {}), MenuMlsd, IDLE_TIMEOUT \div 2)
SpecMlsd == InitMlsd /\ [][NextMlsd]_vars

\* the last step ended with 226 the MLSD of session record ss, which listed
\* a directory that holds one regular file and nothing else
MlsdOfOneFileDone(ss) ==
    /\ ss.live /\ ss.command = ""
    /\ "226 OK" \in Range(ss.log)
    /\ ss.m_transfer = "listTransfer" /\ ss.m_xferDirMode = "MLSD"
    /\ ss.m_lwd = Root
    /\ \E n \in DOMAIN fs : isFileKind(fs[n]) /\ \A m \in DOMAIN fs \ {n} : fs[m] = None

\* C25 as stated: the MLSD has written exactly one line, whatever the fact
\* enables
C25_OneLineAlways ==
    \A s \in SessionIds :
        MlsdOfOneFileDone(sessions[s]) => sessions[s].bodySent = 1

\* C25: the MLSD has written the fact line of the file, preceded by a line
\* for the listed directory itself when the type fact is enabled
C25_OneLinePlusCdir ==
    \A s \in SessionIds :
        MlsdOfOneFileDone(sessions[s])
            => sessions[s].bodySent = IF sessions[s].m_mlstType THEN 2 ELSE 1

\* an MLSD of the root that holds one file has ended, the type fact off
C25_Witness ==
    \E s \in SessionIds :
        /\ MlsdOfOneFileDone(sessions[s])
        /\ ~sessions[s].m_mlstType
        /\ sessions[s].bodySent = 1

----------------------------------------------------------------------------
(* Specification for the end of a retrieval: one client of a server        *)
(* without credentials retrieves /a, of MaxFile units, in stream mode and in MODE Z over a    *)
(* data socket whose writes move all or one unit, block or fail, and sends *)
(* NOOP meanwhile; the clock stays below IDLE_TIMEOUT.  The fair variant   *)
(* adds what the reactor loop and a reading client give: the loop goes on, *)
(* Socket::poll reports the data socket writable again and again, and a    *)
(* write on a socket reported writable goes through again and again.       *)

LinesRetr ==
    {L("MODE", W("Z")), L("PASV", W("")), L("RETR", P(TRUE, <<"a">>)),
     L("NOOP", W(""))}
EnvsRetr ==
    {DefaultEnv, [DefaultEnv EXCEPT !.data = "block"],
     [DefaultEnv EXCEPT !.data = "block", !.ready = 1, !.short = TRUE], [DefaultEnv EXCEPT !.data = "err"],
     [DefaultEnv EXCEPT !.short = TRUE], [DefaultEnv EXCEPT !.file = FALSE]}
MenuRetr == {{}, {POLLIN}, {POLLOUT}}
\* /a holds MaxFile units
InitRetr ==
    /\ sessions = [s \in SessionIds |-> NoSession]
    /\ config = Config("", "")
    /\ fs = [InitFs EXCEPT !["a"] = File(MaxFile)]
    /\ now = 0
    /\ reactor = Idle
NextRetr == NextWith({1}, EnvsRetr, Batches(LinesRetr, {}), MenuRetr, IDLE_TIMEOUT \div 2)
SpecRetr == InitRetr /\ [][NextRetr]_vars

\* session s is sending a file
RetrRunning(s) ==
    /\ sessions[s].live
    /\ sessions[s].m_state = DATA_TRANSFER
    /\ sessions[s].m_transfer = "retrieveTransfer"

\* the reactor is about to call poll with a retrieval under way
AwaitsWritable == reactor.phase = "wait" /\ \E s \in SessionIds : RetrRunning(s)

\* the call of poll from there that reports the data socket writable
PollsWritable ==
    /\ AwaitsWritable
    /\ reactor'.phase = "session"
    /\ \E i \in DOMAIN reactor'.pollInfo :
          /\ reactor'.pollInfo[i].addr = "data"
          /\ POLLOUT \in reactor'.pollInfo[i].revents

\* the loop body is at the data part for a data socket reported writable
AtWritable ==
    /\ reactor.phase = "session" /\ reactor.step = "data"
    /\ reactor.pollInfo[reactor.idx].addr = "data"
    /\ POLLOUT \in reactor.pollInfo[reactor.idx].revents

\* the step from there in which the data socket takes what it is given: it
\* is not one that ends on EWOULDBLOCK with nothing written
FreePump ==
    /\ AtWritable
    /\ LET ss == sessions[reactor.cur]
           tt == sessions'[reactor.cur]
       IN ~(tt.wouldBlock = "data" /\ tt.bodySent = ss.bodySent)

\* The reactor keeps ticking: the loop body runs to its end (weak fairness
\* of Sweep) and poll is called again.  The data socket becomes writable
\* again: strong fairness of PollsWritable and of FreePump, each written as
\* <>[]~enabled \/ []<>taken with the condition under which the step can be
\* taken in the place of ENABLED.
SpecRetrFair ==
    /\ SpecRetr
    /\ WF_vars(Sweep)
    /\ []<>(reactor.phase = "wait")
    /\ (<>[]~AwaitsWritable) \/ ([]<><<PollsWritable>>_vars)
    /\ (<>[]~AtWritable) \/ ([]<><<FreePump>>_vars)

RetrReplies ==
    {"226 OK", "426 Connection broken during transfer", "426 Data connection failed",
     "451 %s", "501 zlib error"}

\* session s is back in COMMAND state, and the step that took it there sent
\* a final reply if the command connection was still there
RetrEnded(s) ==
    /\ sessions[s].live
    /\ sessions[s].m_state = COMMAND
    /\ sessions[s].m_dataSocket = "null"
    /\ sessions[s].m_commandSocket => RetrReplies \cap Range(sessions[s].log) # {}

\* C26: a RETR of a regular file that has entered DATA_TRANSFER leads to
\* COMMAND state with a final reply (226, 426, 451 or 501), in stream mode
\* and in MODE Z, when the reactor keeps ticking and the data socket
\* becomes writable again
C26_RetrTerminates == \A s \in SessionIds : RetrRunning(s) ~> RetrEnded(s)

\* a retrieval in MODE Z has ended with 226 after the compressor was
\* finished and its output sent
C26_Witness ==
    \E s \in SessionIds :
        /\ RetrEnded(s)
        /\ sessions[s].m_commandSocket
        /\ sessions[s].m_deflate /\ sessions[s].m_zFlushed
        /\ sessions[s].bodySent >= 1
        /\ "226 OK" \in Range(sessions[s].log)

----------------------------------------------------------------------------
(* Specification for the arming flags: one client of a server without      *)
(* credentials sends PASV and PORT, RETR and LIST, and the inline MLST and *)
(* STAT; a connection from the client is accepted or not, a connection to  *)
(* the client is made at once or in progress.                              *)

LinesFlags ==
    {L("PASV", W("")), L("PORT", W("h1,h2,h3,h4,p1,p2")),
     L("RETR", P(TRUE, <<"a">>)), L("LIST", W("")),
     L("MLST", P(TRUE, <<"a">>)), L("STAT", P(TRUE, <<"d">>))}
EnvsFlags ==
    {DefaultEnv, [DefaultEnv EXCEPT !.accept = FALSE], [DefaultEnv EXCEPT !.connect = "done"]}
MenuFlags == {{}, {POLLIN}, {POLLOUT}}
InitFlags == InitWith({Config("", "")})
NextFlags == NextWith({1}, EnvsFlags, Batches(LinesFlags, {}), MenuFlags, IDLE_TIMEOUT \div 2)
SpecFlags == InitFlags /\ [][NextFlags]_vars

\* how many of the pasv arming flag, the port arming flag and an active
\* data socket session ss has
ArmedCount(ss) ==
    (IF ss.m_pasv THEN 1 ELSE 0) + (IF ss.m_port THEN 1 ELSE 0)
        + (IF ss.m_dataSocket # "null" THEN 1 ELSE 0)

\* C27: a live session outside COMMAND state has exactly one of the pasv
\* arming flag, the port arming flag and an active data socket
C27_OneOfArmedOrConnected ==
    \A s \in SessionIds :
        sessions[s].live /\ ~dead(sessions[s]) /\ sessions[s].m_state # COMMAND
            => ArmedCount(sessions[s]) = 1

----------------------------------------------------------------------------
(* Specification for the flush of replies: one client of a server without  *)
(* credentials sends PASV, RETR and NOOP; a write to the command socket    *)
(* goes through or blocks, a write to the data socket goes through or      *)
(* blocks.                                                                 *)

LinesFlush == {L("PASV", W("")), L("RETR", P(TRUE, <<"a">>)), L("NOOP", W(""))}
EnvsFlush ==
    {DefaultEnv, [DefaultEnv EXCEPT !.write = "block"], [DefaultEnv EXCEPT !.data = "block"]}
MenuFlush == {{}, {POLLIN}, {POLLOUT}}
InitFlush == InitWith({Config("", "")})
NextFlush == NextWith({1}, EnvsFlush, Batches(LinesFlush, {}), MenuFlush, IDLE_TIMEOUT \div 2)
SpecFlush == InitFlush /\ [][NextFlush]_vars

\* the loop body of session s is at the command socket, which is open, has
\* replies buffered and is reported writable
FlushDue(s) ==
    /\ InBody(s) /\ reactor.step = "command"
    /\ reactor.pollInfo[reactor.idx].addr = "command"
    /\ POLLOUT \in reactor.pollInfo[reactor.idx].revents
    /\ sessions[s].m_commandSocket
    /\ sessions[s].m_responseBuffer # << >>

\* C28: in every session state the buffered replies are written to the
\* command socket in the tick in which poll reports it writable (or the
\* write fails and the command socket is closed)
C28_FlushOnPollout ==
    [][\A s \in SessionIds :
          FlushDue(s) =>
              \/ IsPrefix(sessions[s].m_responseBuffer, sessions'[s].wrote)
              \/ sessions'[s].failed]_vars

----------------------------------------------------------------------------
(* Specification for entries that do not fit: one client of a server       *)
(* without credentials lists the root directory, which holds an entry      *)
(* whose formatted line is longer than the io-buffer, in stream mode and   *)
(* in MODE Z, over a data socket that takes what it is given or blocks.    *)

LinesDirent ==
    {L("MODE", W("Z")), L("PASV", W("")), L("LIST", W("")), L("MLSD", W("")),
     L("MLST", P(TRUE, <<LongName>>))}
EnvsDirent == {DefaultEnv, [DefaultEnv EXCEPT !.data = "block"]}
MenuDirent == {{}, {POLLIN}, {POLLOUT}}
InitDirent ==
    /\ sessions = [s \in SessionIds |-> NoSession]
    /\ config = Config("", "")
    /\ fs = [n \in DOMAIN InitFs \cup {LongName} |->
                IF n = LongName THEN File(1) ELSE InitFs[n]]
    /\ now = 0
    /\ reactor = Idle
NextDirent == NextWith({1}, EnvsDirent, Batches(LinesDirent, {}), MenuDirent,
                       IDLE_TIMEOUT \div 2)
SpecDirent == InitDirent /\ [][NextDirent]_vars

\* the loop body of session s is at the data part with a listing under way
\* that has still to read the entry that does not fit
LongEntryAhead(s) ==
    /\ InBody(s) /\ reactor.step = "data"
    /\ sessions[s].m_state = DATA_TRANSFER
    /\ sessions[s].m_transfer = "listTransfer"
    /\ LongName \in Range(sessions[s].m_dir.entries)

\* C29: an entry that fillDirent cannot fit does not abort the listing and
\* is not skipped: the pump does not answer 425, and while the transfer
\* goes on the entry is still to be sent
C29_EagainIsRetried ==
    [][\A s \in SessionIds :
          LongEntryAhead(s) =>
              /\ "425 %s" \notin Range(sessions'[s].log)
              /\ sessions'[s].m_state = DATA_TRANSFER
                    => LongName \in Range(sessions'[s].m_dir.entries)]_vars

----------------------------------------------------------------------------
(* The session lock, on the runs of SpecDirent.  The step record `unlocked' *)
(* names the fields read by draw () and drawConnections () that the step   *)
(* of the reactor thread wrote outside LOCKED and outside a scoped_lock of *)
(* m_lock.                                                                 *)

\* C30: the reactor thread writes the session state that the UI thread
\* reads under m_lock only while it holds m_lock
C30_WritesUnderLock == \A s \in SessionIds : sessions[s].unlocked = {}

----------------------------------------------------------------------------
(* The pasv listening socket, on the runs of SpecAbort *)

\* session ss waits for a PASV connection: the state in which the reactor
\* builds a poll entry from *m_pasvSocket
AwaitsPasv(ss) == ss.live /\ ss.m_state = DATA_CONNECT /\ ss.m_pasv

\* C31: a session in DATA_CONNECT with the pasv flag set has its pasv
\* listening socket, so the reactor never builds a poll entry from an absent
\* pasv socket
C31_PasvSocketWhenAwaited ==
    \A s \in SessionIds : AwaitsPasv(sessions[s]) => sessions[s].m_pasvSocket

----------------------------------------------------------------------------
(* Specification for sessions that lost their command connection: up to    *)
(* two clients of a server without credentials send PASV and LIST, and the *)
(* peer closes the command connection or the read fails; no connection is  *)
(* accepted on a listening socket; the clock runs up to MaxNow.            *)

LinesOrphan == {L("PASV", W("")), L("LIST", W(""))}
EnvsOrphan == {[DefaultEnv EXCEPT !.accept = FALSE]}
MenuOrphan == {{}, {POLLIN}}
InitOrphan == InitWith({Config("", "")})
NextOrphan == NextWith({1, 2}, EnvsOrphan, Batches(LinesOrphan, {}), MenuOrphan, MaxNow)
SpecOrphan == InitOrphan /\ [][NextOrphan]_vars

\* poll has an entry to wait on
HasEntries == buildPollInfo(sessions, 1) # << >>

\* poll is called with a non-empty poll set
PollsEntries == reactor.phase = "wait" /\ HasEntries

\* Socket::poll returns
PollReturns == reactor.phase = "wait" /\ reactor'.phase = "session"

\* Socket::poll returns after its 100 ms without an event
PollTimesOut ==
    /\ PollReturns
    /\ \A i \in DOMAIN reactor'.pollInfo : reactor'.pollInfo[i].revents = {}

\* The scheduling of the reactor: the loop body ends and poll is called
\* again; the clock goes on; a call of Socket::poll returns; and among the
\* calls that return, again and again one has timed out without an event.
SpecOrphanFair ==
    /\ SpecOrphan
    /\ WF_vars(Sweep)
    /\ []<>(reactor.phase = "wait")
    /\ <>(now = MaxNow)
    /\ (<>[]~PollsEntries) \/ ([]<><<PollTimesOut>>_vars)

\* session s has lost its command socket, holds another socket, and the
\* clock can still reach its idle timeout
Orphaned(s) ==
    /\ sessions[s].live
    /\ ~sessions[s].m_commandSocket
    /\ ~dead(sessions[s])
    /\ now + IDLE_TIMEOUT <= MaxNow

\* C32: once the command socket of a session has been closed, the session
\* eventually has no pasv or data socket either: dead () becomes true and
\* the server erases it
C32_OrphanDies ==
    \A s \in SessionIds :
        Orphaned(s) ~> (~sessions[s].live \/ dead(sessions[s]))

\* the same with poll having an entry to wait on from then on
C32_OrphanDiesWhilePolling ==
    \A s \in SessionIds :
        Orphaned(s) ~> (~sessions[s].live \/ dead(sessions[s]) \/ ~HasEntries)

----------------------------------------------------------------------------
(* Specification for the shared configuration: one client of a server      *)
(* whose user is "u" and whose password is "p" gives the user name, a      *)
(* wrong password or the right one, and sends OPTS and SITE commands.      *)

LinesOpts ==
    {L("USER", W("u")), L("PASS", W("x")), L("PASS", W("p")),
     L("OPTS", W("UTF8")), L("OPTS", W2("MLST", "Size;")),
     L("OPTS", W2("MODE Z LEVEL", "9")), L("OPTS", W2("MODE Z LEVEL", "x")),
     L("SITE", W2("USER", "x")), L("SITE", W2("PASS", "x")),
     L("SITE", W2("PORT", "1")), L("SITE", W2("DEFLATE", "1")),
     L("SITE", W2("HOST", "h"))}
EnvsOpts == {DefaultEnv}
MenuOpts == {{}, {POLLIN}}
InitOpts == InitWith({Config("u", "p")})
NextOpts == NextWith({1}, EnvsOpts, Batches(LinesOpts, {}), MenuOpts, IDLE_TIMEOUT \div 2)
SpecOpts == InitOpts /\ [][NextOpts]_vars

\* the fields of the Config record a client can set
Settings(cfg) ==
    [user |-> cfg.user, pass |-> cfg.pass, port |-> cfg.port,
     hostname |-> cfg.hostname, deflateLevel |-> cfg.deflateLevel]

\* C33: a step of the reactor on a session that is not authorized leaves
\* the configured user, password, port, hostname and deflate level as they
\* were
C33_UnauthorizedKeepsConfig ==
    [][\A s \in SessionIds :
          InBody(s) /\ ~authorized(sessions[s])
              => Settings(config') = Settings(config)]_vars

\* the same for every setting but the deflate level
C33_UnauthorizedKeepsLogin ==
    [][\A s \in SessionIds :
          InBody(s) /\ ~authorized(sessions[s])
              => [Settings(config') EXCEPT !.deflateLevel = 0]
                    = [Settings(config) EXCEPT !.deflateLevel = 0]]_vars

----------------------------------------------------------------------------
(* The password after USER, on the runs of SpecLogin *)

\* C34: with a password configured, a session that has been answered
\* `331 Need password' is not authorized until a later PASS is accepted
C34_NeedPassUnauthorized ==
    \A s \in SessionIds :
        sessions[s].live /\ sessions[s].needPass /\ config.pass # ""
            => ~authorized(sessions[s])

\* the same for a session that has not been authorized before
C34_FirstLoginNeedsPass ==
    \A s \in SessionIds :
        sessions[s].live /\ sessions[s].needPass /\ config.pass # ""
            /\ ~sessions[s].loginSeen
            => ~authorized(sessions[s])

----------------------------------------------------------------------------
(* Specification for uploads that are turned down: one client of a server  *)
(* without credentials sends STOR and APPE for a file that exists and for  *)
(* one that does not, with or without a PORT before; the connection to the *)
(* client is in progress or fails.                                         *)

LinesStore ==
    {L("PORT", W("h1,h2,h3,h4,p1,p2")),
     L("STOR", P(TRUE, <<"a">>)), L("STOR", P(TRUE, <<"b">>)),
     L("APPE", P(TRUE, <<"a">>)), L("APPE", P(TRUE, <<"b">>))}
EnvsStore == {DefaultEnv, [DefaultEnv EXCEPT !.connect = "fail"]}
MenuStore == {{}, {POLLIN}, {POLLOUT}}
InitStore == InitWith({Config("", "")})
NextStore == NextWith({1}, EnvsStore, Batches(LinesStore, {}), MenuStore, IDLE_TIMEOUT \div 2)
SpecStore == InitStore /\ [][NextStore]_vars

\* the replies of xferFile to an upload whose data connection is missing
\* or cannot be opened
NoDataReplies == {"503 Bad sequence of commands", "425 Can't open data connection"}

\* the step has answered a STOR or APPE of session s with one of them
UploadTurnedDown(ss) ==
    /\ ss.command \in {"STOR", "APPE"}
    /\ ss.stateBefore = COMMAND
    /\ Range(ss.log) \cap NoDataReplies # {}

\* C35: a STOR or APPE answered 503 or 425 leaves the filesystem as it
\* was: the target is neither created nor truncated
C35_RejectedUploadKeepsFs ==
    [][\A s \in SessionIds : UploadTurnedDown(sessions'[s]) => fs' = fs]_vars

----------------------------------------------------------------------------
(* Specification for transfers that do not start: one client of a server   *)
(* without credentials sends MODE Z, REST and PASV, then RETR of a file     *)
(* that exists or not, STOR onto a directory and LIST of a missing path;   *)
(* an open or a seek may fail.                                             *)

LinesHandles ==
    {L("MODE", W("Z")), L("REST", W("1")), L("PASV", W("")),
     L("RETR", P(TRUE, <<"a">>)), L("RETR", P(TRUE, <<"b">>)),
     L("STOR", P(TRUE, <<"d">>)), L("LIST", P(TRUE, <<"b">>))}
EnvsHandles ==
    {DefaultEnv, [DefaultEnv EXCEPT !.open = FALSE], [DefaultEnv EXCEPT !.seek = FALSE]}
MenuHandles == {{}, {POLLIN}}
InitHandles == InitWith({Config("", "")})
NextHandles == NextWith({1}, EnvsHandles, Batches(LinesHandles, {}), MenuHandles,
                        IDLE_TIMEOUT \div 2)
SpecHandles == InitHandles /\ [][NextHandles]_vars

\* session ss holds nothing of a transfer
NoTransferState(ss) ==
    /\ ~ss.m_file.open
    /\ ~ss.m_dir.open
    /\ ~ss.m_zStream
    /\ ss.m_fileSize = 0
    /\ ss.m_filePosition = 0

\* the step has run the handler of a command of session ss
HandlerReturned(ss) == ss.live /\ ss.command \in Verbs

\* C36: when a command handler returns with the session in COMMAND state,
\* the session holds no open file, no open directory and no compressor
\* stream, and m_fileSize and m_filePosition are 0
C36_CommandStateHoldsNothing ==
    \A s \in SessionIds :
        HandlerReturned(sessions[s]) /\ sessions[s].m_state = COMMAND
            => NoTransferState(sessions[s])

\* the same on the paths that end in setState (COMMAND, ...): every reply
\* but the 450 of xferFile, as long as no 450 has gone before
C36_SetStateHoldsNothing ==
    \A s \in SessionIds :
        /\ HandlerReturned(sessions[s]) /\ sessions[s].m_state = COMMAND
        /\ ~skipsSetState(L(sessions[s].command, W(sessions[s].args)))
        /\ "450 %s" \notin Range(sessions[s].log)
        => NoTransferState(sessions[s])

----------------------------------------------------------------------------
(* Specification for a transfer after an aborted one: one client of a      *)
(* server without credentials sends PASV, RETR, ABOR, LIST and NLST with a *)
(* `*' pattern; a write to the data socket goes through or blocks.         *)

LinesStale ==
    {L("PASV", W("")), L("RETR", P(TRUE, <<"a">>)), L("ABOR", W("")),
     L("LIST", W("")), L("MLSD", W("")), L("NLST", W("*"))}
EnvsStale == {DefaultEnv, [DefaultEnv EXCEPT !.data = "block"]}
MenuStale == {{}, {POLLIN}, {POLLOUT}}
InitStale == InitWith({Config("", "")})
NextStale == NextWith({1}, EnvsStale, Batches(LinesStale, {}), MenuStale, IDLE_TIMEOUT \div 2)
SpecStale == InitStale /\ [][NextStale]_vars

\* the step from the current state to the next dispatches a command of
\* session s that takes it from COMMAND state into a transfer
EntersTransfer(s) ==
    /\ InBody(s) /\ reactor.step = "loop"
    /\ sessions[s].m_state = COMMAND
    /\ sessions'[s].live /\ sessions'[s].m_state # COMMAND

\* the units the command that set the transfer up has put into the
\* buffers: the entry xferDir formats for the listed path itself
OwnUnits(ss) == IF ss.m_transfer = "listTransfer" THEN ss.m_filePosition ELSE 0

\* C37: when a transfer enters DATA_CONNECT or DATA_TRANSFER, m_xferBuffer
\* and m_zStreamBuffer hold nothing left over from an earlier transfer
C37_BuffersFreshAtStart ==
    [][\A s \in SessionIds :
          EntersTransfer(s) =>
              sessions'[s].m_xferBuffer + sessions'[s].m_zStreamBuffer
                  = OwnUnits(sessions'[s])]_vars

\* the same for the transfers set up by xferFile and xferDir
C37_XferBuffersFreshAtStart ==
    [][\A s \in SessionIds :
          EntersTransfer(s) /\ sessions'[s].m_transfer # "globTransfer" =>
              sessions'[s].m_xferBuffer + sessions'[s].m_zStreamBuffer
                  = OwnUnits(sessions'[s])]_vars

----------------------------------------------------------------------------
(* Specification for the inline listings under MODE Z: one client of a     *)
(* server without credentials switches between MODE Z and MODE S and sends *)
(* MLST of a file and STAT of a directory; a write takes all it is given   *)
(* or one unit.                                                            *)

LinesPlain ==
    {L("MODE", W("Z")), L("MODE", W("S")),
     L("MLST", P(TRUE, <<"a">>)), L("STAT", P(TRUE, <<"d">>))}
EnvsPlain == {DefaultEnv, [DefaultEnv EXCEPT !.short = TRUE]}
MenuPlain == {{}, {POLLIN}, {POLLOUT}}
InitPlain == InitWith({Config("", "")})
NextPlain == NextWith({1}, EnvsPlain, Batches(LinesPlain, {}), MenuPlain, IDLE_TIMEOUT \div 2)
SpecPlain == InitPlain /\ [][NextPlain]_vars

\* C38: no step writes output of the compressor to the command socket: the
\* entry lines of MLST and of STAT with an argument go out as plain text in
\* every transmission mode
C38_CommandSocketIsPlain ==
    \A s \in SessionIds : ~sessions[s].zInline

\* the same in stream mode
C38_PlainInStreamMode ==
    \A s \in SessionIds : sessions[s].zInline => sessions[s].m_deflate

----------------------------------------------------------------------------
(* The direction flags, on the runs of SpecData *)

\* the assertions of the poll-set construction hold for session ss
PollAssertsHold(ss) ==
    /\ ss.m_state = DATA_CONNECT /\ ss.m_pasv => ~ss.m_port
    /\ ss.m_state = DATA_TRANSFER => IF ss.m_recv THEN ~ss.m_send ELSE ss.m_send

----------------------------------------------------------------------------
(* Specification for the formatting of a reply.  Here the response buffer  *)
(* of the one session is modelled by its bytes: it starts with any number  *)
(* of bytes waiting, and reply after reply of any length is formatted into *)
(* its free area; the write that follows takes all, blocks or fails.       *)

ResponseBytes == 6   \* capacity of the response buffer, in bytes
MaxReply      == 8   \* length of the longest reply, in bytes

NUL == "NUL"

\* a reply of n bytes: text that ends in CR LF
Reply(n) == [i \in 1 .. n |-> IF i = n - 1 THEN "CR" ELSE IF i = n THEN "LF" ELSE "x"]
Replies == {Reply(n) : n \in 2 .. MaxReply}

\* std::vsnprintf (buffer, size, ...): the length of the formatted text, and
\* what it stores in the buffer: at most size - 1 bytes of the text and the
\* terminator
vsnprintf(size, text) ==
    [rc  |-> Len(text),
     out |-> IF size = 0 THEN << >>
             ELSE SubSeq(text, 1, Min(Len(text), size - 1)) \o <<NUL>>]

\* sendResponse (char const *fmt_, ...) on the bytes of the buffer
sendResponseBytes(c, text) ==
    IF ~c.ss.m_commandSocket THEN c
    ELSE LET size   == ResponseBytes - Len(c.ss.m_responseBuffer)
             logged == [c EXCEPT !.ss.log = Append(@, text)]
             f      == vsnprintf(size, text)
         IN
         IF f.rc > size
         THEN closeCommand([logged EXCEPT !.ss.failed = TRUE])
         ELSE LET queued == [logged EXCEPT
                                !.ss.m_responseBuffer = @ \o SubSeq(f.out, 1, f.rc)] IN
              CASE c.env.write = "err"   -> closeCommand([queued EXCEPT !.ss.failed = TRUE])
                [] c.env.write = "block" -> blocked(queued, "reply")
                [] OTHER -> [queued EXCEPT !.ss.m_responseBuffer = << >>,
                                           !.ss.wrote = @ \o queued.ss.m_responseBuffer,
                                           !.ss.m_timestamp = now]

\* a handler of session s sends a reply
Format(s, env, text) ==
    /\ sessions[s].live
    /\ sessions' = others(s, sendResponseBytes(ctx(s, env), text).ss)
    /\ UNCHANGED <<config, fs, now, reactor>>

InitFormat ==
    /\ \E used \in 0 .. ResponseBytes :
          sessions = [s \in SessionIds |->
                         IF s = 1
                         THEN [NoSession EXCEPT !.live = TRUE,
                                                !.m_commandSocket = TRUE,
                                                !.m_authorizedUser = TRUE,
                                                !.m_authorizedPass = TRUE,
                                                !.m_responseBuffer = [i \in 1 .. used |-> "x"]]
                         ELSE NoSession]
    /\ config = Config("", "")
    /\ fs = InitFs
    /\ now = 0
    /\ reactor = Idle
NextFormat ==
    \E w \in WriteOutcomes, text \in Replies : Format(1, [DefaultEnv EXCEPT !.write = w], text)
SpecFormat == InitFormat /\ [][NextFormat]_vars

\* the bytes session s has handed to the command socket or holds for it
\* after a step: what the step wrote, then what waits in the buffer
Outgoing(ss) == ss.wrote \o ss.m_responseBuffer

\* C40: sendResponse either appends exactly the bytes of the reply to the
\* response buffer or closes the command socket and appends nothing; it
\* never marks used a truncated reply or the terminator
C40_WholeReplyOrClose ==
    [][\A s \in SessionIds :
          sessions[s].live /\ sessions[s].m_commandSocket =>
              LET ss == sessions[s]
                  tt == sessions'[s]
              IN \/ Outgoing(tt) = ss.m_responseBuffer \o tt.log[1]
                 \/ /\ ~tt.m_commandSocket
                    /\ Outgoing(tt) = ss.m_responseBuffer]_vars

\* the same for a reply whose length is not the free size
C40_WholeUnlessExactFit ==
    [][\A s \in SessionIds :
          LET ss == sessions[s]
              tt == sessions'[s]
          IN /\ ss.live /\ ss.m_commandSocket
             /\ Len(tt.log[1]) # ResponseBytes - Len(ss.m_responseBuffer)
             => \/ Outgoing(tt) = ss.m_responseBuffer \o tt.log[1]
                \/ /\ ~tt.m_commandSocket
                   /\ Outgoing(tt) = ss.m_responseBuffer]_vars

============================================================================
